---- MODULE Spec2Model ----
(***************************************************************************)
(* Hierarchical bitmap slot allocator (index-mem-alloc).                   *)
(*                                                                         *)
(* The backing buffer is the u64 slice the allocator sees from its offset. *)
(* A u64 word is kept as four 16-bit limbs <<l0, l1, l2, l3>> (l0 holds    *)
(* bits 0..15), because the model checker's integers are 32 bits wide; a   *)
(* bit of the word is a bit of one limb, and the masks of the bit-scan     *)
(* kernel (0xffff, 0xffffffff, 0xffff00000000) are whole limbs.            *)
(* The buffer is kept sparsely: mem maps the index of every non-zero word  *)
(* to its value, and a word that is not in DOMAIN mem is zero.             *)
(*                                                                         *)
(* Six specifications share the variables.  Spec and SpecScenario run one  *)
(* allocator of the facade over its slice.  SpecKernel applies the bit-scan *)
(* kernel to sampled words.  SpecArena hands regions (length, start        *)
(* address, offset) to the constructors and runs the instances over the    *)
(* words of the whole region, where mem is indexed from the region's       *)
(* start; a call that panics is a Result whose err is "panic".             *)
(* SpecVariant runs the facade and the dedicated variant of its geometry   *)
(* side by side on equal buffers, and SpecClones runs two handles of       *)
(* SmallMemoryMap over one shared cell.                                    *)
(***************************************************************************)
EXTENDS Integers, FiniteSets, Sequences, TLC

VARIABLES mode, map_type, slice_len, mem, allocated, streak, res, plan,
          ker, region, maps, calls, ref

\* The state of a run of one allocator over its slice.
pool == <<mode, map_type, slice_len, mem, allocated, streak, res, plan>>

\* The state of the harnesses that exercise one function or one scenario.
harness == <<ker, region, maps, calls, ref>>

vars == <<pool, harness>>

\* ------------------------------------------------------------------ words

ZeroWord == <<0, 0, 0, 0>>

u64_MAX == <<65535, 65535, 65535, 65535>>

Pow2(k) == 2 ^ k

\* pattern & (1 << j), as 0 or 1
Bit(w, j) == (w[(j \div 16) + 1] \div Pow2(j % 16)) % 2

\* w | (1 << j)
SetBit(w, j) ==
    IF Bit(w, j) = 1 THEN w
    ELSE [w EXCEPT ![(j \div 16) + 1] = @ + Pow2(j % 16)]

\* Mutant: the bit is left as it is.
ClearBit_kept(w, j) == w

\* Mutant: the bit is toggled (^=) where it should be cleared.
ClearBit_toggle(w, j) ==
    [w EXCEPT ![(j \div 16) + 1] =
        IF (w[(j \div 16) + 1] \div Pow2(j % 16)) % 2 = 0
        THEN @ + Pow2(j % 16)
        ELSE @ - Pow2(j % 16)]

\* w & (u64::MAX - (1 << j))
ClearBit(w, j) ==
    IF Bit(w, j) = 0 THEN w
    ELSE [w EXCEPT ![(j \div 16) + 1] = @ - Pow2(j % 16)]

\* u64_slice[i]
Word(m, i) == IF i \in DOMAIN m THEN m[i] ELSE ZeroWord

\* u64_slice[i] = w
Store(m, i, w) ==
    IF w = Word(m, i) THEN m
    ELSE IF w = ZeroWord THEN [j \in DOMAIN m \ {i} |-> m[j]]
    ELSE IF i \in DOMAIN m THEN [m EXCEPT ![i] = w]
    ELSE [j \in DOMAIN m \cup {i} |-> IF j = i THEN w ELSE m[j]]

\* ------------------------------------------------------------------ results

Ok(v) == [ok |-> TRUE, val |-> v, err |-> "None"]

Err(e) == [ok |-> FALSE, val |-> -1, err |-> e]

\* ------------------------------------------------------------------ kernel

\* for j in lo..hi { if pattern & (1 << j) == 0 { return Ok(j) } }; the
\* loop falling through is the function's final Err(NoAvailableSlots).
RECURSIVE ScanZero(_, _, _)
ScanZero(pattern, lo, hi) ==
    IF lo >= hi THEN Err("NoAvailableSlots")
    ELSE IF Bit(pattern, lo) = 0 THEN Ok(lo)
    ELSE ScanZero(pattern, lo + 1, hi)

Min(a, b) == IF a < b THEN a ELSE b

\* Mutant: the two scans of the upper half are swapped.
get_first_zero_bit_swapped(pattern, bits) ==
    IF bits < 33 THEN ScanZero(pattern, 0, bits)
    ELSE IF pattern[1] = 65535 /\ pattern[2] = 65535
         THEN IF pattern[3] = 65535
              THEN ScanZero(pattern, 32, Min(bits, 48))
              ELSE ScanZero(pattern, 48, bits)
    ELSE IF pattern[1] = 65535 THEN ScanZero(pattern, 16, 32)
    ELSE ScanZero(pattern, 0, 16)

\* Mutant: the scan of bits 32..47 is not clamped to bits (32..48).
get_first_zero_bit_unclamped(pattern, bits) ==
    IF bits < 33 THEN ScanZero(pattern, 0, bits)
    ELSE IF pattern[1] = 65535 /\ pattern[2] = 65535
         THEN IF pattern[3] = 65535
              THEN ScanZero(pattern, 48, bits)
              ELSE ScanZero(pattern, 32, 48)
    ELSE IF pattern[1] = 65535 THEN ScanZero(pattern, 16, 32)
    ELSE ScanZero(pattern, 0, 16)

\* Mutant: the last scan stops one bit short (48..bits-1).
get_first_zero_bit_short(pattern, bits) ==
    IF bits < 33 THEN ScanZero(pattern, 0, bits)
    ELSE IF pattern[1] = 65535 /\ pattern[2] = 65535
         THEN IF pattern[3] = 65535
              THEN ScanZero(pattern, 48, bits - 1)
              ELSE ScanZero(pattern, 32, Min(bits, 48))
    ELSE IF pattern[1] = 65535 THEN ScanZero(pattern, 16, 32)
    ELSE ScanZero(pattern, 0, 16)

get_first_zero_bit(pattern, bits) ==
    IF bits < 33 THEN ScanZero(pattern, 0, bits)
    ELSE IF pattern[1] = 65535 /\ pattern[2] = 65535
         THEN IF pattern[3] = 65535
              THEN ScanZero(pattern, 48, bits)
              ELSE ScanZero(pattern, 32, Min(bits, 48))
    ELSE IF pattern[1] = 65535 THEN ScanZero(pattern, 16, 32)
    ELSE ScanZero(pattern, 0, 16)

\* ------------------------------------------------------------------ geometry

MapTypes == {"Standard", "Trade", "Small"}

\* Mutant: the 4-wide geometry is given no first-level bit.
first_level_bits_trade_zero(t) ==
    CASE t = "Standard" -> 64
      [] t = "Trade" -> 0
      [] t = "Small" -> 64

first_level_bits(t) ==
    CASE t = "Standard" -> 64
      [] t = "Trade" -> 4
      [] t = "Small" -> 64

\* Mutant: the leaf words of the 64-wide geometry start one word late.
third_level_base_late(t) ==
    CASE t = "Standard" -> 66
      [] t = "Trade" -> 5
      [] t = "Small" -> 0

third_level_base(t) ==
    CASE t = "Standard" -> 65
      [] t = "Trade" -> 5
      [] t = "Small" -> 0

has_third_level(t) == t \in {"Standard", "Trade"}

\* Mutant: the layout is taken one word short of its last leaf word.
required_words_short(t) ==
    CASE t = "Standard" -> 64 + 64 * 64
      [] t = "Trade" -> 4 + 4 * 64
      [] t = "Small" -> 64

\* required_size / size_of::<u64>() of MemoryMapImpl::new
required_words(t) ==
    CASE t = "Standard" -> 1 + 64 + 64 * 64
      [] t = "Trade" -> 1 + 4 + 4 * 64
      [] t = "Small" -> 1 + 64

\* Mutant: the bound is shifted by 6 bits per geometry where the 3-level
\* ones need 12.
max_index_shift6(t) ==
    CASE t = "Standard" -> (64 * 64) - 1
      [] t = "Trade" -> (4 * 64) - 1
      [] t = "Small" -> (64 * 64) - 1

\* Mutant: Trade's bound is a copy of Standard's.
max_index_copied(t) ==
    CASE t = "Standard" -> (64 * 4096) - 1
      [] t = "Trade" -> (64 * 4096) - 1
      [] t = "Small" -> (64 * 64) - 1

\* max_index of MemoryMapImpl::dealloc
max_index(t) ==
    CASE t = "Standard" -> (64 * 4096) - 1
      [] t = "Trade" -> (4 * 4096) - 1
      [] t = "Small" -> (64 * 64) - 1

\* ------------------------------------------------------------------ alloc

\* Mutant: the slot bit is assigned (=) where it should be or-ed in (|=).
alloc_small_assign(m, first, second_idx, second) ==
    LET m1 == Store(m, second_idx, SetBit(ZeroWord, second))
        m2 == IF Word(m1, second_idx) = u64_MAX
              THEN Store(m1, 0, SetBit(Word(m1, 0), first))
              ELSE m1
    IN [mem |-> m2, res |-> Ok((first * 64) + second)]

\* Mutant: the first-level bit is set whether or not the second-level word
\* became full.
alloc_small_eager(m, first, second_idx, second) ==
    LET m1 == Store(m, second_idx, SetBit(Word(m, second_idx), second))
        m2 == Store(m1, 0, SetBit(Word(m1, 0), first))
    IN [mem |-> m2, res |-> Ok((first * 64) + second)]

\* Mutant: the first-level bit is never set.
alloc_small_unmarked(m, first, second_idx, second) ==
    LET m1 == Store(m, second_idx, SetBit(Word(m, second_idx), second))
    IN [mem |-> m1, res |-> Ok((first * 64) + second)]

\* The two-level tail of MemoryMapImpl::alloc (map_type == Small).
alloc_small(m, first, second_idx, second) ==
    LET m1 == Store(m, second_idx, SetBit(Word(m, second_idx), second))
        m2 == IF Word(m1, second_idx) = u64_MAX
              THEN Store(m1, 0, SetBit(Word(m1, 0), first))
              ELSE m1
    IN [mem |-> m2, res |-> Ok((first * 64) + second)]

\* Mutant: the second-level bit is set whether or not the third-level word
\* became full.
alloc_third_eager(m, len, t, first, second_idx, second) ==
    LET third_idx == third_level_base(t) + (first * 64) + second
    IN IF third_idx >= len
       THEN [mem |-> m, res |-> Err("InsufficientMemory")]
       ELSE LET third_r == get_first_zero_bit(Word(m, third_idx), 64)
            IN IF ~third_r.ok
               THEN [mem |-> m, res |-> third_r]
               ELSE LET third == third_r.val
                        m1 == Store(m, third_idx,
                                    SetBit(Word(m, third_idx), third))
                        m2 == Store(m1, second_idx,
                                    SetBit(Word(m1, second_idx), second))
                        m3 == IF Word(m2, second_idx) = u64_MAX
                              THEN Store(m2, 0, SetBit(Word(m2, 0), first))
                              ELSE m2
                    IN [mem |-> m3,
                        res |-> Ok((first * 4096) + (second * 64) + third)]

\* Mutant: the call that takes the last slot marks it and then reports the
\* pool as full.
alloc_third_reports_full(m, len, t, first, second_idx, second) ==
    LET third_idx == third_level_base(t) + (first * 64) + second
    IN IF third_idx >= len
       THEN [mem |-> m, res |-> Err("InsufficientMemory")]
       ELSE LET third_r == get_first_zero_bit(Word(m, third_idx), 64)
            IN IF ~third_r.ok
               THEN [mem |-> m, res |-> third_r]
               ELSE LET third == third_r.val
                        m1 == Store(m, third_idx,
                                    SetBit(Word(m, third_idx), third))
                        m2 == IF Word(m1, third_idx) = u64_MAX
                              THEN Store(m1, second_idx,
                                         SetBit(Word(m1, second_idx), second))
                              ELSE m1
                        m3 == IF /\ Word(m1, third_idx) = u64_MAX
                                 /\ Word(m2, second_idx) = u64_MAX
                              THEN Store(m2, 0, SetBit(Word(m2, 0), first))
                              ELSE m2
                    IN IF ~get_first_zero_bit(Word(m3, 0),
                                              first_level_bits(t)).ok
                       THEN [mem |-> m3, res |-> Err("NoAvailableSlots")]
                       ELSE [mem |-> m3,
                             res |-> Ok((first * 4096) + (second * 64)
                                           + third)]

\* Mutant: the second-level and third-level positions change places in the
\* returned index.
alloc_third_swapped(m, len, t, first, second_idx, second) ==
    LET third_idx == third_level_base(t) + (first * 64) + second
    IN IF third_idx >= len
       THEN [mem |-> m, res |-> Err("InsufficientMemory")]
       ELSE LET third_r == get_first_zero_bit(Word(m, third_idx), 64)
            IN IF ~third_r.ok
               THEN [mem |-> m, res |-> third_r]
               ELSE LET third == third_r.val
                        m1 == Store(m, third_idx,
                                    SetBit(Word(m, third_idx), third))
                        m2 == IF Word(m1, third_idx) = u64_MAX
                              THEN Store(m1, second_idx,
                                         SetBit(Word(m1, second_idx), second))
                              ELSE m1
                        m3 == IF /\ Word(m1, third_idx) = u64_MAX
                                 /\ Word(m2, second_idx) = u64_MAX
                              THEN Store(m2, 0, SetBit(Word(m2, 0), first))
                              ELSE m2
                    IN [mem |-> m3,
                        res |-> Ok((first * 4096) + (third * 64) + second)]

\* The three-level tail of MemoryMapImpl::alloc (Standard and Trade).
alloc_third(m, len, t, first, second_idx, second) ==
    LET third_idx == third_level_base(t) + (first * 64) + second
    IN IF third_idx >= len
       THEN [mem |-> m, res |-> Err("InsufficientMemory")]
       ELSE LET third_r == get_first_zero_bit(Word(m, third_idx), 64)
            IN IF ~third_r.ok
               THEN [mem |-> m, res |-> third_r]
               ELSE LET third == third_r.val
                        m1 == Store(m, third_idx,
                                    SetBit(Word(m, third_idx), third))
                        m2 == IF Word(m1, third_idx) = u64_MAX
                              THEN Store(m1, second_idx,
                                         SetBit(Word(m1, second_idx), second))
                              ELSE m1
                        m3 == IF /\ Word(m1, third_idx) = u64_MAX
                                 /\ Word(m2, second_idx) = u64_MAX
                              THEN Store(m2, 0, SetBit(Word(m2, 0), first))
                              ELSE m2
                    IN [mem |-> m3,
                        res |-> Ok((first * 4096) + (second * 64) + third)]

\* MemoryMapImpl::alloc on the slice m of len words, geometry t: the new
\* slice and the returned Result.
alloc(m, len, t) ==
    LET first_r == get_first_zero_bit(Word(m, 0), first_level_bits(t))
    IN IF ~first_r.ok
       THEN [mem |-> m, res |-> first_r]
       ELSE LET first == first_r.val
                second_idx == 1 + first
            IN IF second_idx >= len
               THEN [mem |-> m, res |-> Err("InsufficientMemory")]
               ELSE LET second_r == get_first_zero_bit(Word(m, second_idx), 64)
                    IN IF ~second_r.ok
                       THEN [mem |-> m, res |-> second_r]
                       ELSE IF t = "Small"
                       THEN alloc_small(m, first, second_idx, second_r.val)
                       ELSE alloc_third(m, len, t, first, second_idx,
                                        second_r.val)

\* ------------------------------------------------------------------ dealloc

\* Mutant: the first-level bit is left as it was.
dealloc_small_keeps_first(m, len, index) ==
    LET first == index \div 64
        second_idx == 1 + first
    IN IF second_idx >= len
       THEN [mem |-> m, res |-> Err("IndexOutOfBounds")]
       ELSE LET m1 == Store(m, second_idx,
                            ClearBit(Word(m, second_idx), index % 64))
            IN [mem |-> m1, res |-> Ok(0)]

\* Mutant: the whole second-level word is cleared.
dealloc_small_clears_word(m, len, index) ==
    LET first == index \div 64
        second_idx == 1 + first
    IN IF second_idx >= len
       THEN [mem |-> m, res |-> Err("IndexOutOfBounds")]
       ELSE LET m1 == Store(m, second_idx, ZeroWord)
                m2 == Store(m1, 0, ClearBit(Word(m1, 0), first))
            IN [mem |-> m2, res |-> Ok(0)]

\* The two-level branch of MemoryMapImpl::dealloc; index >> 6 and
\* index & 0x3f on a non-negative isize.
dealloc_small(m, len, index) ==
    LET first == index \div 64
        second_idx == 1 + first
    IN IF second_idx >= len
       THEN [mem |-> m, res |-> Err("IndexOutOfBounds")]
       ELSE LET m1 == Store(m, second_idx,
                            ClearBit(Word(m, second_idx), index % 64))
                m2 == Store(m1, 0, ClearBit(Word(m1, 0), first))
            IN [mem |-> m2, res |-> Ok(0)]

\* Mutant: the second-level bit is left as it was.
dealloc_third_keeps_second(m, len, t, index) ==
    LET first == index \div 4096
        second_idx == 1 + first
        third_idx == third_level_base(t) + (index \div 64)
    IN IF third_idx >= len \/ second_idx >= len
       THEN [mem |-> m, res |-> Err("IndexOutOfBounds")]
       ELSE LET m1 == Store(m, third_idx,
                            ClearBit(Word(m, third_idx), index % 64))
                m3 == Store(m1, 0, ClearBit(Word(m1, 0), first))
            IN [mem |-> m3, res |-> Ok(0)]

\* Mutant: the whole third-level word is cleared.
dealloc_third_clears_word(m, len, t, index) ==
    LET first == index \div 4096
        second == (index % 4096) \div 64
        second_idx == 1 + first
        third_idx == third_level_base(t) + (index \div 64)
    IN IF third_idx >= len \/ second_idx >= len
       THEN [mem |-> m, res |-> Err("IndexOutOfBounds")]
       ELSE LET m1 == Store(m, third_idx, ZeroWord)
                m2 == Store(m1, second_idx,
                            ClearBit(Word(m1, second_idx), second))
                m3 == Store(m2, 0, ClearBit(Word(m2, 0), first))
            IN [mem |-> m3, res |-> Ok(0)]

\* The three-level branch of MemoryMapImpl::dealloc; index >> 12,
\* (index & 0xfff) >> 6, index >> 6 and index & 0x3f on a non-negative isize.
dealloc_third(m, len, t, index) ==
    LET first == index \div 4096
        second == (index % 4096) \div 64
        second_idx == 1 + first
        third_idx == third_level_base(t) + (index \div 64)
    IN IF third_idx >= len \/ second_idx >= len
       THEN [mem |-> m, res |-> Err("IndexOutOfBounds")]
       ELSE LET m1 == Store(m, third_idx,
                            ClearBit(Word(m, third_idx), index % 64))
                m2 == Store(m1, second_idx,
                            ClearBit(Word(m1, second_idx), second))
                m3 == Store(m2, 0, ClearBit(Word(m2, 0), first))
            IN [mem |-> m3, res |-> Ok(0)]

\* MemoryMapImpl::dealloc; a successful call returns Ok(()), written Ok(0).
dealloc(m, len, t, index) ==
    IF index < 0 THEN [mem |-> m, res |-> Err("InvalidIndex")]
    ELSE IF index > max_index(t) THEN [mem |-> m, res |-> Err("InvalidIndex")]
    ELSE IF t = "Small" THEN dealloc_small(m, len, index)
    ELSE dealloc_third(m, len, t, index)

\* ------------------------------------------------------------------ ledger

(***************************************************************************)
(* The caller's ledger of live indices (returned by alloc and not          *)
(* deallocated since), kept apart from the buffer.  It is a set of         *)
(* disjoint, non-adjacent ranges <<lo, hi>>, so that the ledger of a       *)
(* nearly full pool stays small; each set of indices has one such form.    *)
(***************************************************************************)
Live(R, v) == \E r \in R : r[1] <= v /\ v <= r[2]

Range(lo, hi) == IF lo <= hi THEN {<<lo, hi>>} ELSE {}

AddLive(R, v) ==
    IF Live(R, v) THEN R
    ELSE LET left == {r \in R : r[2] = v - 1}
             right == {r \in R : r[1] = v + 1}
             lo == IF left = {} THEN v ELSE (CHOOSE r \in left : TRUE)[1]
             hi == IF right = {} THEN v ELSE (CHOOSE r \in right : TRUE)[2]
         IN (R \ (left \cup right)) \cup {<<lo, hi>>}

DelLive(R, v) ==
    IF ~Live(R, v) THEN R
    ELSE LET r == CHOOSE x \in R : x[1] <= v /\ v <= x[2]
         IN (R \ {r}) \cup Range(r[1], v - 1) \cup Range(v + 1, r[2])

RECURSIVE LiveCount(_)
LiveCount(R) ==
    IF R = {} THEN 0
    ELSE LET r == CHOOSE x \in R : TRUE
         IN (r[2] - r[1]) + 1 + LiveCount(R \ {r})

\* The lowest index that is not live.
LowestFree(R) ==
    LET z == {r \in R : r[1] = 0}
    IN IF z = {} THEN 0 ELSE (CHOOSE r \in z : TRUE)[2] + 1

\* ------------------------------------------------------------------ bounds

\* Extra words the slice may have beyond the geometry's required words.
MaxSlack == 1

\* Live allocations an exploring run may hold at once.
MaxLive == 68

\* Free slots left in the Standard pool where a filling run picks it up.
TailLen == 66

\* The most slots a round trip allocates before it frees them all.
MaxRound == 65

\* The number of slots allocated before a subset of them is freed and
\* allocated again.
ReuseLen == 66

\* ------------------------------------------------------------------ system

\* The word whose low k bits are 1 (0 <= k <= 64).
LowOnes(k) ==
    [i \in 1..4 |->
        IF k >= 16 * i THEN 65535
        ELSE IF k <= 16 * (i - 1) THEN 0
        ELSE Pow2(k - (16 * (i - 1))) - 1]

\* The buffer in which exactly the indices 0..n-1 are allocated: the
\* lowest-tier words hold the slot bits, and a parent bit is set for every
\* child word that is full.
Filled(t, n) ==
    LET base == IF has_third_level(t) THEN third_level_base(t) ELSE 1
        low == {base + q : q \in 0..((n - 1) \div 64)}
        full == n \div 64
        mid == IF has_third_level(t)
               THEN {1 + g : g \in {h \in 0..(first_level_bits(t) - 1) :
                                       full - (64 * h) > 0}}
               ELSE {}
        tops == IF has_third_level(t) THEN n \div 4096 ELSE n \div 64
        top == IF tops > 0 THEN {0} ELSE {}
    IN [i \in (IF n > 0 THEN low ELSE {}) \cup mid \cup top |->
          IF i = 0 THEN LowOnes(tops)
          ELSE IF i >= base THEN LowOnes(Min(64, n - (64 * (i - base))))
          ELSE LowOnes(Min(64, full - (64 * (i - 1))))]

\* A run either explores alloc and dealloc freely on a lightly used pool,
\* or fills the pool to its capacity and frees slots of the full pool, or
\* allocates a number of slots and then frees them all.
Modes == {"explore", "fill", "roundtrip"}

\* The runs of the scenarios: the first mid-tier group of the 64-wide
\* three-tier pool is filled ("group"); a number of slots is allocated, some
\* of them are freed, and slots are allocated again ("reuse").
ScenarioModes == {"group", "reuse"}

\* The number of slots of one mid-tier group of a three-tier pool.
GroupSlots == 64 * 64

\* The number of allocations a run makes beyond the first group.
GroupExtra == 2

\* The numbers of slots a reuse run allocates first.
ReuseSizes == {4, ReuseLen}

\* The indices a reuse run frees: the lowest four and the highest three of
\* the n allocated.
ReuseInputs(n) == {i \in {0, 1, 2, 3, n - 3, n - 2, n - 1} : 0 <= i /\ i < n}

\* The plan of a reuse run: n slots are allocated ("fill"), the set freed of
\* them is deallocated ("free"), and k allocs have been made since
\* ("refill").
PlanIdle == [n |-> 0, stage |-> "none", freed |-> {}, k |-> 0]

PlanAfterAlloc ==
    IF mode # "reuse" THEN plan
    ELSE IF plan.stage = "fill" /\ streak < plan.n THEN plan
    ELSE IF plan.stage = "refill" THEN [plan EXCEPT !.k = @ + 1]
    ELSE [plan EXCEPT !.stage = "refill", !.k = 1]

PlanAfterDealloc(index) ==
    IF mode # "reuse" THEN plan
    ELSE [plan EXCEPT !.stage = "free", !.freed = @ \cup {index}]

\* The number of slots already allocated where a filling run starts: the
\* Small and Trade pools are filled from the empty buffer, the Standard pool
\* from the buffer TailLen allocations short of full.
FillStart(t) == IF t = "Standard" THEN (max_index(t) + 1) - TailLen ELSE 0

\* The indices a caller passes to dealloc, whatever the geometry: around the
\* first word boundary, the last slot of each geometry and the index after
\* it, a negative index and one far beyond every pool.
DeallocInputs ==
    {-1, 0, 1, 63, 64, 4095, 4096, 16383, 16384, 262143, 262144, 1000000}

\* The indices a round trip frees next: the lowest or the highest index of a
\* live range, or any live index once at most four are left.
RoundInputs(R) ==
    {r[1] : r \in R} \cup {r[2] : r \in R}
        \cup (IF LiveCount(R) <= 4
              THEN UNION {r[1]..r[2] : r \in R}
              ELSE {})

NoCall ==
    [op |-> "none", arg |-> -1, live |-> FALSE,
     ok |-> TRUE, val |-> -1, err |-> "None"]

\* A call and its Result; live tells whether the caller's ledger held the
\* index (the one returned by alloc, the one passed to dealloc) at the call.
Call(op, arg, live, r) ==
    [op |-> op, arg |-> arg, live |-> live,
     ok |-> r.ok, val |-> r.val, err |-> r.err]

\* The harnesses at rest, as they are throughout a run of the pool.
KerIdle == [pattern |-> ZeroWord, bits |-> 0, done |-> FALSE, out |-> Ok(0)]

ArenaIdle ==
    /\ region = [len |-> 0, addr |-> 0, borrowed |-> FALSE]
    /\ maps = <<>>
    /\ calls = 0
    /\ ref = <<>>

\* A successfully constructed allocator over a zero-initialised buffer (or,
\* for the Standard pool of a filling run, over the buffer FillStart
\* allocations have left).  allocated is the ledger of live indices; streak
\* is the number of alloc calls made so far while no dealloc has been
\* called, and -1 after the first dealloc.
Init ==
    /\ mode \in Modes
    /\ map_type \in MapTypes
    /\ slice_len \in {required_words(map_type) + k : k \in 0..MaxSlack}
    /\ LET n == IF mode = "fill" THEN FillStart(map_type) ELSE 0
       IN /\ mem = Filled(map_type, n)
          /\ allocated = Range(0, n - 1)
          /\ streak = n
    /\ res = NoCall
    /\ plan = PlanIdle
    /\ ker = KerIdle
    /\ ArenaIdle

\* The scenarios start from the zeroed buffer.
InitScenario ==
    /\ mode \in ScenarioModes
    /\ map_type \in (IF mode = "group" THEN {"Standard"} ELSE MapTypes)
    /\ slice_len \in {required_words(map_type) + k : k \in 0..MaxSlack}
    /\ mem = Filled(map_type, 0)
    /\ allocated = {}
    /\ streak = 0
    /\ res = NoCall
    /\ plan \in (IF mode = "reuse"
                 THEN {[PlanIdle EXCEPT !.n = n, !.stage = "fill"] :
                          n \in ReuseSizes}
                 ELSE {PlanIdle})
    /\ ker = KerIdle
    /\ ArenaIdle

AllocEnabled ==
    CASE mode = "explore" -> LiveCount(allocated) < MaxLive
      [] mode = "fill" -> TRUE
      [] mode = "roundtrip" ->
            \/ 0 <= streak /\ streak < MaxRound
            \/ streak < 0 /\ allocated = {} /\ res.op = "dealloc"
      [] mode = "group" -> streak < GroupSlots + GroupExtra
      [] mode = "reuse" ->
            \/ plan.stage \in {"fill", "free"}
            \/ plan.stage = "refill" /\ plan.k <= Cardinality(plan.freed)

Alloc ==
    /\ AllocEnabled
    /\ LET out == alloc(mem, slice_len, map_type)
       IN /\ mem' = out.mem
          /\ res' = Call("alloc", -1,
                         out.res.ok /\ Live(allocated, out.res.val), out.res)
          /\ allocated' = IF out.res.ok
                          THEN AddLive(allocated, out.res.val)
                          ELSE allocated
    /\ streak' = IF streak < 0 THEN -1
                 ELSE Min(streak + 1, max_index(map_type) + 2)
    /\ plan' = PlanAfterAlloc
    /\ UNCHANGED <<mode, map_type, slice_len>>
    /\ UNCHANGED harness

DeallocChoices ==
    CASE mode = "explore" -> DeallocInputs
      [] mode = "fill" ->
            IF res.op = "alloc" /\ ~res.ok THEN DeallocInputs ELSE {}
      [] mode = "roundtrip" ->
            IF streak < 0 \/ streak \in {1, 2, 3, 4, MaxRound - 1, MaxRound}
            THEN RoundInputs(allocated)
            ELSE {}
      [] mode = "group" -> {}
      [] mode = "reuse" ->
            IF plan.stage = "free" \/ (plan.stage = "fill" /\ streak = plan.n)
            THEN {i \in ReuseInputs(plan.n) : Live(allocated, i)}
            ELSE {}

Dealloc ==
    /\ \E index \in DeallocChoices :
          LET out == dealloc(mem, slice_len, map_type, index)
          IN /\ mem' = out.mem
             /\ res' = Call("dealloc", index, Live(allocated, index), out.res)
             /\ allocated' = IF out.res.ok
                             THEN DelLive(allocated, index)
                             ELSE allocated
             /\ plan' = PlanAfterDealloc(index)
    /\ streak' = -1
    /\ UNCHANGED <<mode, map_type, slice_len>>
    /\ UNCHANGED harness

Next == Alloc \/ Dealloc

Spec == Init /\ [][Next]_vars

SpecScenario == InitScenario /\ [][Next]_vars

\* ------------------------------------------------------------------ kernel harness

\* The limbs the sampled words are built from: empty, half full, full but
\* for the lowest or the highest bit, and full.
KernelLimbs == {0, 255, 32767, 65534, 65535}

\* The words the kernel is called on: every word of four sampled limbs, and
\* for every position p the two words whose bits below p are all ones and
\* whose bit p is zero (with the bits above p all zero, or all one).
KernelWords ==
    {<<a, b, c, d>> : a \in KernelLimbs, b \in KernelLimbs,
                      c \in KernelLimbs, d \in KernelLimbs}
    \cup {LowOnes(p) : p \in 0..64}
    \cup {ClearBit(u64_MAX, p) : p \in 0..63}

\* significant_bits: every value a caller can pass for a 64-bit word.
KernelBits == 0..64

InitKernel ==
    /\ mode = "explore"
    /\ map_type = "Small"
    /\ slice_len = required_words("Small")
    /\ mem = Filled("Small", 0)
    /\ allocated = {}
    /\ streak = 0
    /\ res = NoCall
    /\ plan = PlanIdle
    /\ \E pattern \in KernelWords, bits \in KernelBits :
          ker = [pattern |-> pattern, bits |-> bits,
                 done |-> FALSE, out |-> Ok(0)]
    /\ ArenaIdle

\* get_first_zero_bit(pattern, significant_bits) is called once.
KernelCall ==
    /\ ~ker.done
    /\ ker' = [ker EXCEPT !.done = TRUE,
                          !.out = get_first_zero_bit(ker.pattern, ker.bits)]
    /\ UNCHANGED <<pool, region, maps, calls, ref>>

NextKernel == KernelCall

SpecKernel == InitKernel /\ [][NextKernel]_vars

\* ------------------------------------------------------------------ construction

\* A panic: the call does not return; the thread unwinds.
Panic == [ok |-> FALSE, val |-> -1, err |-> "panic"]

\* The constructors of the crate: the facade and the per-geometry variants.
Impls ==
    {"MemoryMapImpl", "MaxMemoryMap", "SmallMemoryMap", "StandardMemoryMap"}

\* The geometry of a variant, by the facade's name for it: MaxMemoryMap has
\* three tiers of 64, SmallMemoryMap two tiers, and the StandardMemoryMap of
\* trade_memory_map.rs three tiers under a top tier of 4 bits.
VariantGeometry(impl) ==
    CASE impl = "MaxMemoryMap" -> "Standard"
      [] impl = "SmallMemoryMap" -> "Small"
      [] impl = "StandardMemoryMap" -> "Trade"

\* Mutant: the capacity of the region is checked before its alignment.
MemoryMapImpl_new_size_first(len, addr, offset, t) ==
    IF offset >= len THEN Err("InvalidOffset")
    ELSE IF len - offset < required_words(t) * 8
         THEN Err("InsufficientMemory")
    ELSE IF (addr + offset) % 8 # 0 THEN Err("AlignmentError")
    ELSE Ok(offset)

\* MemoryMapImpl::new(memory, offset, map_type) over a region of len bytes
\* that starts at address addr; Ok carries the offset the instance keeps.
MemoryMapImpl_new(len, addr, offset, t) ==
    IF offset >= len THEN Err("InvalidOffset")
    ELSE IF (addr + offset) % 8 # 0 THEN Err("AlignmentError")
    ELSE IF len - offset < required_words(t) * 8
         THEN Err("InsufficientMemory")
    ELSE Ok(offset)

\* memory.len() - offset < required_size in usize: when offset exceeds the
\* length the subtraction overflows, which panics in a build with overflow
\* checks and otherwise wraps to 2^64 - (offset - len), a value that is
\* below required_size for no length and offset a region can have.
RemainingBelow(len, offset, required_size) ==
    IF offset > len THEN {"panic", "no"}
    ELSE IF len - offset < required_size THEN {"yes"}
    ELSE {"no"}

\* The outcomes of a constructor whose only check is the remaining size.
SizeChecked(len, offset, required_size) ==
    {CASE below = "panic" -> Panic
       [] below = "yes" -> Err("InsufficientMemory")
       [] below = "no" -> Ok(offset)
     : below \in RemainingBelow(len, offset, required_size)}

\* MaxMemoryMap::new(memory, offset): the set of its possible outcomes.
MaxMemoryMap_new(len, offset) ==
    SizeChecked(len, offset, (1 + 64 + 64 * 64) * 8)

\* SmallMemoryMap::new(memory, offset): memory.borrow() panics while the
\* cell is mutably borrowed.
SmallMemoryMap_new(borrowed, len, offset) ==
    IF borrowed THEN {Panic}
    ELSE SizeChecked(len, offset, (1 + 64) * 8)

\* StandardMemoryMap::new(memory, size): the region is a pointer and the
\* size the caller states; there is no offset.
StandardMemoryMap_new(size) ==
    IF size < (1 + 4 + 4 * 64) * 8 THEN {Err("InsufficientMemory")}
    ELSE {Ok(0)}

\* The words of the buffer m from word base on, as the slice an instance
\* sees, and the buffer with that slice replaced by s.
Slice(m, base) ==
    IF base = 0 THEN m
    ELSE [i \in {j - base : j \in {x \in DOMAIN m : x >= base}}
            |-> m[i + base]]

Embed(m, base, s) ==
    IF base = 0 THEN s
    ELSE [j \in {x \in DOMAIN m : x < base} \cup {i + base : i \in DOMAIN s}
            |-> IF j < base THEN m[j] ELSE s[j - base]]

\* Mutant: the slice is taken from the start of the region.
WordBase_start(reg, offset) == reg.addr \div 8

\* The index of the word at byte offset of the region (an aligned offset).
WordBase(reg, offset) == (reg.addr + offset) \div 8

\* cast_slice_mut::<u8, u64>(&mut self.memory[self.offset..]) panics unless
\* the bytes start at a multiple of 8 and their number is a multiple of 8.
CastFails(reg, offset) ==
    \/ (reg.addr + offset) % 8 # 0
    \/ (reg.len - offset) % 8 # 0

\* MemoryMapImpl::alloc of the instance self over the region reg, whose
\* words are m.
MemoryMapImpl_alloc(self, reg, m) ==
    IF CastFails(reg, self.offset) THEN [mem |-> m, res |-> Panic]
    ELSE LET base == WordBase(reg, self.offset)
             out == alloc(Slice(m, base), (reg.len - self.offset) \div 8,
                          self.map_type)
         IN [mem |-> Embed(m, base, out.mem), res |-> out.res]

\* MemoryMapImpl::dealloc: the index is validated before the bytes are cast.
MemoryMapImpl_dealloc(self, reg, m, index) ==
    IF index < 0 \/ index > max_index(self.map_type)
    THEN [mem |-> m, res |-> Err("InvalidIndex")]
    ELSE IF CastFails(reg, self.offset) THEN [mem |-> m, res |-> Panic]
    ELSE LET base == WordBase(reg, self.offset)
             out == dealloc(Slice(m, base), (reg.len - self.offset) \div 8,
                            self.map_type, index)
         IN [mem |-> Embed(m, base, out.mem), res |-> out.res]

\* SmallMemoryMap::alloc over the cell shared with other holders:
\* borrow_mut() panics while the buffer is mutably borrowed, the slice from
\* self.offset panics when the offset is beyond the buffer, and the cast
\* panics as in the facade.
SmallMemoryMap_alloc(self, reg, m) ==
    IF reg.borrowed \/ self.offset > reg.len \/ CastFails(reg, self.offset)
    THEN [mem |-> m, res |-> Panic]
    ELSE LET base == WordBase(reg, self.offset)
             u64_slice == Slice(m, base)
             len == (reg.len - self.offset) \div 8
             first == get_first_zero_bit(Word(u64_slice, 0), 64)
         IN IF ~first.ok THEN [mem |-> m, res |-> first]
            ELSE IF 1 + first.val >= len
                 THEN [mem |-> m, res |-> Err("InsufficientMemory")]
            ELSE LET second_idx == 1 + first.val
                     second == get_first_zero_bit(Word(u64_slice, second_idx),
                                                  64)
                 IN IF ~second.ok THEN [mem |-> m, res |-> second]
                    ELSE LET m1 == Store(u64_slice, second_idx,
                                         SetBit(Word(u64_slice, second_idx),
                                                second.val))
                             m2 == IF Word(m1, second_idx) = u64_MAX
                                   THEN Store(m1, 0,
                                              SetBit(Word(m1, 0), first.val))
                                   ELSE m1
                         IN [mem |-> Embed(m, base, m2),
                             res |-> Ok((first.val * 64) + second.val)]

\* SmallMemoryMap::dealloc(index: usize): the upper bound of the index is
\* checked before the buffer is borrowed.
SmallMemoryMap_dealloc(self, reg, m, index) ==
    IF index > (64 * 64) - 1 THEN [mem |-> m, res |-> Err("InvalidIndex")]
    ELSE IF reg.borrowed \/ self.offset > reg.len
                         \/ CastFails(reg, self.offset)
         THEN [mem |-> m, res |-> Panic]
    ELSE LET base == WordBase(reg, self.offset)
             u64_slice == Slice(m, base)
             len == (reg.len - self.offset) \div 8
             first == index \div 64
             second_idx == 1 + first
         IN IF second_idx >= len
            THEN [mem |-> m, res |-> Err("IndexOutOfBounds")]
            ELSE LET m1 == Store(u64_slice, second_idx,
                                 ClearBit(Word(u64_slice, second_idx),
                                          index % 64))
                     m2 == Store(m1, 0, ClearBit(Word(m1, 0), first))
                 IN [mem |-> Embed(m, base, m2), res |-> Ok(0)]

\* ------------------------------------------------------------------ variants

\* MaxMemoryMap::alloc: the instance holds the RefMut itself, so nothing is
\* borrowed at the call; the slice from self.offset and the cast panic as
\* in SmallMemoryMap::alloc.
MaxMemoryMap_alloc(self, reg, m) ==
    IF self.offset > reg.len \/ CastFails(reg, self.offset)
    THEN [mem |-> m, res |-> Panic]
    ELSE LET base == WordBase(reg, self.offset)
             u64_slice == Slice(m, base)
             len == (reg.len - self.offset) \div 8
             first == get_first_zero_bit(Word(u64_slice, 0), 64)
         IN IF ~first.ok THEN [mem |-> m, res |-> first]
            ELSE IF 1 + first.val >= len
                 THEN [mem |-> m, res |-> Err("InsufficientMemory")]
            ELSE LET second_idx == 1 + first.val
                     second == get_first_zero_bit(Word(u64_slice, second_idx),
                                                  64)
                 IN IF ~second.ok THEN [mem |-> m, res |-> second]
                    ELSE IF 65 + (first.val * 64) + second.val >= len
                         THEN [mem |-> m, res |-> Err("InsufficientMemory")]
                    ELSE LET third_idx == 65 + (first.val * 64) + second.val
                             third == get_first_zero_bit(
                                          Word(u64_slice, third_idx), 64)
                         IN IF ~third.ok THEN [mem |-> m, res |-> third]
                            ELSE LET m1 == Store(u64_slice, third_idx,
                                                 SetBit(Word(u64_slice,
                                                             third_idx),
                                                        third.val))
                                     m2 == IF Word(m1, third_idx) = u64_MAX
                                           THEN Store(m1, second_idx,
                                                      SetBit(Word(m1,
                                                                  second_idx),
                                                             second.val))
                                           ELSE m1
                                     m3 == IF /\ Word(m1, third_idx) = u64_MAX
                                              /\ Word(m2, second_idx) = u64_MAX
                                           THEN Store(m2, 0,
                                                      SetBit(Word(m2, 0),
                                                             first.val))
                                           ELSE m2
                                 IN [mem |-> Embed(m, base, m3),
                                     res |-> Ok((first.val * 4096)
                                                  + (second.val * 64)
                                                  + third.val)]

\* MaxMemoryMap::dealloc(index: usize): the upper bound of the index is
\* checked before the bytes are cast.
MaxMemoryMap_dealloc(self, reg, m, index) ==
    IF index > (64 * 4096) - 1 THEN [mem |-> m, res |-> Err("InvalidIndex")]
    ELSE IF self.offset > reg.len \/ CastFails(reg, self.offset)
         THEN [mem |-> m, res |-> Panic]
    ELSE LET base == WordBase(reg, self.offset)
             u64_slice == Slice(m, base)
             len == (reg.len - self.offset) \div 8
             first == index \div 4096
             second == (index % 4096) \div 64
             second_idx == 1 + first
             third_idx == 65 + (index \div 64)
         IN IF third_idx >= len \/ second_idx >= len
            THEN [mem |-> m, res |-> Err("IndexOutOfBounds")]
            ELSE LET m1 == Store(u64_slice, third_idx,
                                 ClearBit(Word(u64_slice, third_idx),
                                          index % 64))
                     m2 == Store(m1, second_idx,
                                 ClearBit(Word(m1, second_idx), second))
                     m3 == Store(m2, 0, ClearBit(Word(m2, 0), first))
                 IN [mem |-> Embed(m, base, m3), res |-> Ok(0)]

\* get_u64(memory, size, idx) and get_u64_mut(memory, size, idx): the word
\* idx of the size bytes at the pointer; a word that does not lie within
\* the size bytes is IndexOutOfBounds.  Ok carries the word.
get_u64(m, size, idx) ==
    IF (idx + 1) * 8 > size THEN Err("IndexOutOfBounds") ELSE Ok(Word(m, idx))

get_u64_mut(m, size, idx) == get_u64(m, size, idx)

\* The marking tail of StandardMemoryMap::alloc.
StandardMemoryMap_mark(self, m, first, second_idx, second, third_idx, third) ==
    LET third_word_mut == get_u64_mut(m, self.size, third_idx)
    IN IF ~third_word_mut.ok THEN [mem |-> m, res |-> third_word_mut]
       ELSE LET m1 == Store(m, third_idx, SetBit(third_word_mut.val, third))
                second_word_mut == get_u64_mut(m1, self.size, second_idx)
                first_word_mut == get_u64_mut(m1, self.size, 0)
                done == Ok((first * 4096) + (second * 64) + third)
            IN IF Word(m1, third_idx) # u64_MAX
               THEN [mem |-> m1, res |-> done]
               ELSE IF ~second_word_mut.ok
               THEN [mem |-> m1, res |-> second_word_mut]
               ELSE LET m2 == Store(m1, second_idx,
                                    SetBit(second_word_mut.val, second))
                    IN IF Word(m2, second_idx) # u64_MAX
                       THEN [mem |-> m2, res |-> done]
                       ELSE IF ~first_word_mut.ok
                       THEN [mem |-> m2, res |-> first_word_mut]
                       ELSE [mem |-> Store(m2, 0,
                                           SetBit(first_word_mut.val, first)),
                             res |-> done]

\* StandardMemoryMap::alloc over the self.size bytes at the pointer, whose
\* words are m.
StandardMemoryMap_alloc(self, m) ==
    LET first_word == get_u64(m, self.size, 0)
    IN IF ~first_word.ok THEN [mem |-> m, res |-> first_word]
       ELSE LET first == get_first_zero_bit(first_word.val, 4)
            IN IF ~first.ok THEN [mem |-> m, res |-> first]
               ELSE LET second_idx == 1 + first.val
                        second_word == get_u64(m, self.size, second_idx)
                    IN IF ~second_word.ok
                       THEN [mem |-> m, res |-> second_word]
                       ELSE LET second == get_first_zero_bit(second_word.val,
                                                             64)
                            IN IF ~second.ok THEN [mem |-> m, res |-> second]
                               ELSE LET third_idx ==
                                            5 + (first.val * 64) + second.val
                                        third_word ==
                                            get_u64(m, self.size, third_idx)
                                        third == get_first_zero_bit(
                                                     third_word.val, 64)
                                    IN IF ~third_word.ok
                                       THEN [mem |-> m, res |-> third_word]
                                       ELSE IF ~third.ok
                                       THEN [mem |-> m, res |-> third]
                                       ELSE StandardMemoryMap_mark(
                                                self, m, first.val,
                                                second_idx, second.val,
                                                third_idx, third.val)

\* StandardMemoryMap::dealloc(index: usize): the words are cleared from the
\* lowest tier up, each after its own bounds check.
StandardMemoryMap_dealloc(self, m, index) ==
    IF index > (4 * 4096) - 1 THEN [mem |-> m, res |-> Err("InvalidIndex")]
    ELSE LET first == index \div 4096
             second == (index % 4096) \div 64
             second_idx == 1 + first
             third_idx == 5 + (index \div 64)
             third_word == get_u64_mut(m, self.size, third_idx)
         IN IF ~third_word.ok THEN [mem |-> m, res |-> third_word]
            ELSE LET m1 == Store(m, third_idx,
                                 ClearBit(third_word.val, index % 64))
                     second_word == get_u64_mut(m1, self.size, second_idx)
                 IN IF ~second_word.ok THEN [mem |-> m1, res |-> second_word]
                    ELSE LET m2 == Store(m1, second_idx,
                                         ClearBit(second_word.val, second))
                             first_word == get_u64_mut(m2, self.size, 0)
                         IN IF ~first_word.ok
                            THEN [mem |-> m2, res |-> first_word]
                            ELSE [mem |-> Store(m2, 0,
                                                ClearBit(first_word.val,
                                                         first)),
                                  res |-> Ok(0)]

\* ------------------------------------------------------------------ arena

\* The number of alloc and dealloc calls made on the two instances of a
\* shared region, and on the one instance of a region of the sweep.
MaxCalls == 3

MaxSweepCalls == 2

\* The number of unused words between the layouts of two instances.
MaxGap == 1

\* required_size of a geometry, in bytes.
RequiredBytes(t) == required_words(t) * 8

\* The lengths of the regions handed to a constructor: empty, one word,
\* around the required size, and the double size of the tests.
SweepLens(t) ==
    {0, 8} \cup {RequiredBytes(t) + d : d \in {-1, 0, 1, 4, 8, 12, 16}}
           \cup {2 * RequiredBytes(t)}

\* The offsets passed with a region of len bytes: at and next to the start,
\* around the last offset that leaves the required size, at and next to the
\* end, and beyond it.
SweepOffsets(len, t) ==
    {o \in {0, 1, 4, 8, 12,
            len - RequiredBytes(t) - 4, len - RequiredBytes(t),
            len - RequiredBytes(t) + 8, len - 10, len - 1,
            len, len + 1, len + 8} : o >= 0}

\* The addresses at which a region starts, modulo the alignment of u64.
SweepAddrs == {0, 1, 4}

\* The indices passed to dealloc on an instance of a region.
ArenaIndices == {-1, 0, 1, 4096}

\* No instance: the constructor has not returned one.
NoInstance == [offset |-> -1, map_type |-> "None"]

\* An instance that is not constructed yet, with the arguments it will be
\* constructed with; self is the instance once the constructor has returned
\* it, and rebuilt tells whether it has been dropped and constructed again.
Unbuilt(impl, t, offset) ==
    [impl |-> impl, map_type |-> t, offset |-> offset,
     state |-> "none", out |-> Ok(0), self |-> NoInstance, rebuilt |-> FALSE]

\* A call on instance k and its Result; held tells whether the buffer was
\* mutably borrowed by another holder of the cell at the call.
ArenaCall(k, op, arg, r) ==
    [who |-> k, op |-> op, arg |-> arg, held |-> region.borrowed,
     ok |-> r.ok, val |-> r.val, err |-> r.err]

\* The allocator of geometry t alone over a region of its own in which n
\* slots are allocated, before any call: the reference the instances of a
\* shared region are compared with.
Alone(t, n) == [mem |-> Filled(t, n), res |-> Ok(0)]

\* The numbers of slots allocated in the layout of an instance that shares
\* its region: none, or (in the first layout, of 65 or 261 words) all but
\* the last.
PairFills(k, t) ==
    IF k = 1 /\ t # "Standard" THEN {0, max_index(t)} ELSE {0}

\* One constructor is called on one region, for every constructor, length,
\* start address and offset of the sweep.
InitSweep ==
    /\ \E impl \in Impls, t \in MapTypes, addr \in SweepAddrs :
          \E len \in SweepLens(t) :
             \E offset \in SweepOffsets(len, t) :
                /\ impl # "MemoryMapImpl" => t = VariantGeometry(impl)
                /\ impl = "StandardMemoryMap" => offset = 0
                /\ region = [len |-> len, addr |-> addr, borrowed |-> FALSE]
                /\ maps = <<Unbuilt(impl, t, offset)>>
    /\ ref = <<Alone("Small", 0)>>
    /\ mem = Filled("Small", 0)

\* Two allocators of the facade share one region: the first at its start,
\* the second behind the layout of the first and at most MaxGap words.
InitPair ==
    \E t1 \in MapTypes, t2 \in MapTypes, gap \in 0..MaxGap :
       \E n1 \in PairFills(1, t1), n2 \in PairFills(2, t2) :
          LET second == RequiredBytes(t1) + 8 * gap
          IN /\ region = [len |-> second + RequiredBytes(t2), addr |-> 0,
                          borrowed |-> FALSE]
             /\ maps = <<Unbuilt("MemoryMapImpl", t1, 0),
                         Unbuilt("MemoryMapImpl", t2, second)>>
             /\ ref = <<Alone(t1, n1), Alone(t2, n2)>>
             /\ mem = Embed(Filled(t1, n1), second \div 8, Filled(t2, n2))

\* The offsets passed with a region that holds allocations: its start, a
\* misaligned offset, one that leaves too few bytes, the length of the
\* region and an offset beyond it.
HeldOffsets(len) == {0, 4, 8, len, len + 8}

\* One constructor, of the facade or of SmallMemoryMap, is called on a
\* region of the required size in which an earlier allocator has left all
\* slots but the last allocated.
InitHeld ==
    \E impl \in {"MemoryMapImpl", "SmallMemoryMap"}, t \in {"Small", "Trade"} :
       \E offset \in HeldOffsets(RequiredBytes(t)) :
          /\ impl # "MemoryMapImpl" => t = VariantGeometry(impl)
          /\ region = [len |-> RequiredBytes(t), addr |-> 0,
                       borrowed |-> FALSE]
          /\ maps = <<Unbuilt(impl, t, offset)>>
          /\ ref = <<Alone(t, max_index(t))>>
          /\ mem = Filled(t, max_index(t))

\* A region is zeroed by the host before its first use; the layouts of a
\* shared region are empty or hold what earlier allocations have left.
InitArena ==
    /\ mode = "explore"
    /\ plan = PlanIdle
    /\ map_type = "Small"
    /\ slice_len = required_words("Small")
    /\ allocated = {}
    /\ streak = 0
    /\ ker = KerIdle
    /\ InitSweep \/ InitPair \/ InitHeld
    /\ calls = 0
    /\ res = ArenaCall(0, "none", -1, Ok(-1))

\* The outcomes of the constructor of instance k.
Construct(k) ==
    LET a == maps[k]
    IN CASE a.impl = "MemoryMapImpl" ->
               {MemoryMapImpl_new(region.len, region.addr, a.offset,
                                  a.map_type)}
         [] a.impl = "MaxMemoryMap" -> MaxMemoryMap_new(region.len, a.offset)
         [] a.impl = "SmallMemoryMap" ->
               SmallMemoryMap_new(region.borrowed, region.len, a.offset)
         [] a.impl = "StandardMemoryMap" -> StandardMemoryMap_new(region.len)

StateAfter(r) ==
    IF r.ok THEN "live" ELSE IF r.err = "panic" THEN "panicked" ELSE "failed"

\* Ok(Self { memory, offset, map_type }): the instance keeps the offset and
\* the geometry it was constructed with.
Built(a, out) ==
    IF out.ok THEN [offset |-> out.val, map_type |-> a.map_type]
    ELSE NoInstance

\* Mutant: the constructor zeroes the region from the offset on.
ConstructedMemory_zeroed(m, reg, offset) ==
    [j \in {x \in DOMAIN m : x < (reg.addr + offset) \div 8} |-> m[j]]

\* Mutant: the constructor clears the first word from the offset.
ConstructedMemory_clears_top(m, reg, offset) ==
    Store(m, (reg.addr + offset) \div 8, ZeroWord)

\* The words of the region after a constructor has returned: the
\* constructors store the region and write to none of its bytes.
ConstructedMemory(m, reg, offset) == m

\* The constructor of instance k is called.
New(k) ==
    /\ maps[k].state = "none"
    /\ \E out \in Construct(k) :
          /\ maps' = [maps EXCEPT ![k].state = StateAfter(out),
                                  ![k].out = out,
                                  ![k].self = Built(maps[k], out)]
          /\ res' = ArenaCall(k, "new", maps[k].offset, out)
    /\ mem' = ConstructedMemory(mem, region, maps[k].offset)
    /\ UNCHANGED <<calls, region, ref>>
    /\ UNCHANGED <<mode, map_type, slice_len, allocated, streak, plan, ker>>

\* Instance k is dropped and constructed again over the same region, with
\* the same offset and geometry.
Recreate(k) ==
    /\ maps[k].state = "live"
    /\ \E out \in Construct(k) :
          /\ maps' = [maps EXCEPT ![k].state = StateAfter(out),
                                  ![k].out = out,
                                  ![k].self = Built(maps[k], out),
                                  ![k].rebuilt = TRUE]
          /\ res' = ArenaCall(k, "new", maps[k].offset, out)
    /\ mem' = ConstructedMemory(mem, region, maps[k].offset)
    /\ UNCHANGED <<calls, region, ref>>
    /\ UNCHANGED <<mode, map_type, slice_len, allocated, streak, plan, ker>>

\* An instance alloc and dealloc can be called on: one of the facade, or a
\* SmallMemoryMap over the shared cell.
Usable(k) ==
    /\ maps[k].state = "live"
    /\ maps[k].impl \in {"MemoryMapImpl", "SmallMemoryMap"}
    /\ calls < (IF Len(maps) = 1 THEN MaxSweepCalls ELSE MaxCalls)

AfterCall(k, r) ==
    IF r.err = "panic" THEN [maps EXCEPT ![k].state = "panicked"] ELSE maps

\* The region instance k would have to itself: the bytes of the shared
\* region from its offset on, and the one instance constructed at their
\* start and never dropped.
AloneRegion(k) ==
    [len |-> region.len - maps[k].offset,
     addr |-> (region.addr + maps[k].offset) % 8]

AloneSelf(k) == [offset |-> 0, map_type |-> maps[k].map_type]

\* The same call on the allocator of the facade that is alone over its own
\* region.
AloneAlloc(k) ==
    IF maps[k].impl # "MemoryMapImpl" THEN ref
    ELSE LET out == MemoryMapImpl_alloc(AloneSelf(k), AloneRegion(k),
                                        ref[k].mem)
         IN [ref EXCEPT ![k] = [mem |-> out.mem, res |-> out.res]]

AloneDealloc(k, index) ==
    IF maps[k].impl # "MemoryMapImpl" THEN ref
    ELSE LET out == MemoryMapImpl_dealloc(AloneSelf(k), AloneRegion(k),
                                          ref[k].mem, index)
         IN [ref EXCEPT ![k] = [mem |-> out.mem, res |-> out.res]]

\* alloc and dealloc of instance k, by the type of the instance.
CallAlloc(k) ==
    IF maps[k].impl = "SmallMemoryMap"
    THEN SmallMemoryMap_alloc(maps[k].self, region, mem)
    ELSE MemoryMapImpl_alloc(maps[k].self, region, mem)

CallDealloc(k, index) ==
    IF maps[k].impl = "SmallMemoryMap"
    THEN SmallMemoryMap_dealloc(maps[k].self, region, mem, index)
    ELSE MemoryMapImpl_dealloc(maps[k].self, region, mem, index)

\* The indices instance k can be passed: a usize is never negative.
IndicesOf(k) ==
    IF maps[k].impl = "SmallMemoryMap"
    THEN {i \in ArenaIndices : i >= 0}
    ELSE ArenaIndices

AllocAt(k) ==
    /\ Usable(k)
    /\ LET out == CallAlloc(k)
       IN /\ mem' = out.mem
          /\ res' = ArenaCall(k, "alloc", -1, out.res)
          /\ maps' = AfterCall(k, out.res)
    /\ ref' = AloneAlloc(k)
    /\ calls' = calls + 1
    /\ UNCHANGED region
    /\ UNCHANGED <<mode, map_type, slice_len, allocated, streak, plan, ker>>

DeallocAt(k) ==
    /\ Usable(k)
    /\ \E index \in IndicesOf(k) :
          LET out == CallDealloc(k, index)
          IN /\ mem' = out.mem
             /\ res' = ArenaCall(k, "dealloc", index, out.res)
             /\ maps' = AfterCall(k, out.res)
             /\ ref' = AloneDealloc(k, index)
    /\ calls' = calls + 1
    /\ UNCHANGED region
    /\ UNCHANGED <<mode, map_type, slice_len, allocated, streak, plan, ker>>

\* Another holder of the shared cell takes the buffer with borrow_mut()
\* and keeps the guard, or drops the guard it holds.
BorrowElsewhere ==
    /\ \E k \in DOMAIN maps : maps[k].impl = "SmallMemoryMap"
    /\ ~region.borrowed
    /\ region' = [region EXCEPT !.borrowed = TRUE]
    /\ UNCHANGED <<mem, res, maps, calls, ref>>
    /\ UNCHANGED <<mode, map_type, slice_len, allocated, streak, plan, ker>>

ReleaseElsewhere ==
    /\ region.borrowed
    /\ region' = [region EXCEPT !.borrowed = FALSE]
    /\ UNCHANGED <<mem, res, maps, calls, ref>>
    /\ UNCHANGED <<mode, map_type, slice_len, allocated, streak, plan, ker>>

Construction == \E k \in DOMAIN maps : New(k)

Recreation == \E k \in DOMAIN maps : Recreate(k)

Allocation == \E k \in DOMAIN maps : AllocAt(k)

Deallocation == \E k \in DOMAIN maps : DeallocAt(k)

NextArena ==
    \/ Construction
    \/ Recreation
    \/ Allocation
    \/ Deallocation
    \/ BorrowElsewhere
    \/ ReleaseElsewhere

SpecArena == InitArena /\ [][NextArena]_vars

\* ------------------------------------------------------------------ facade and variant

(***************************************************************************)
(* The facade and the dedicated variant of its geometry run side by side:  *)
(* each is constructed over its own region of region.len bytes, the two    *)
(* buffers (mem for the facade, ref.mem for the variant) start equal, and  *)
(* every call is made on both.  The ledger follows the facade.             *)
(***************************************************************************)

\* The dedicated variant of a geometry.
VariantOf(t) ==
    CASE t = "Standard" -> "MaxMemoryMap"
      [] t = "Small" -> "SmallMemoryMap"
      [] t = "Trade" -> "StandardMemoryMap"

\* The bytes a region has beyond its last whole word.
VariantSlops == {0, 4}

\* The outcomes of the variant's constructor over the region, from its
\* start.
VariantNew(impl, reg) ==
    CASE impl = "MaxMemoryMap" -> MaxMemoryMap_new(reg.len, 0)
      [] impl = "SmallMemoryMap" -> SmallMemoryMap_new(reg.borrowed, reg.len, 0)
      [] impl = "StandardMemoryMap" -> StandardMemoryMap_new(reg.len)

VariantAllocOf(impl, reg, m) ==
    CASE impl = "MaxMemoryMap" -> MaxMemoryMap_alloc([offset |-> 0], reg, m)
      [] impl = "SmallMemoryMap" ->
            SmallMemoryMap_alloc([offset |-> 0], reg, m)
      [] impl = "StandardMemoryMap" ->
            StandardMemoryMap_alloc([size |-> reg.len], m)

VariantDeallocOf(impl, reg, m, index) ==
    CASE impl = "MaxMemoryMap" ->
            MaxMemoryMap_dealloc([offset |-> 0], reg, m, index)
      [] impl = "SmallMemoryMap" ->
            SmallMemoryMap_dealloc([offset |-> 0], reg, m, index)
      [] impl = "StandardMemoryMap" ->
            StandardMemoryMap_dealloc([size |-> reg.len], m, index)

\* The facade instance of the run.
FacadeSelf == [offset |-> 0, map_type |-> map_type]

\* Both constructors have succeeded over regions of equal length and equal
\* content.
InitVariant ==
    /\ mode \in Modes
    /\ map_type \in MapTypes
    /\ slice_len \in {required_words(map_type) + k : k \in 0..MaxSlack}
    /\ region \in {[len |-> (8 * slice_len) + g, addr |-> 0,
                    borrowed |-> FALSE] : g \in VariantSlops}
    /\ MemoryMapImpl_new(region.len, region.addr, 0, map_type).ok
    /\ \E made \in VariantNew(VariantOf(map_type), region) : made.ok
    /\ LET n == IF mode = "fill" THEN FillStart(map_type) ELSE 0
       IN /\ mem = Filled(map_type, n)
          /\ ref = [impl |-> VariantOf(map_type),
                    mem |-> Filled(map_type, n),
                    res |-> Ok(-1)]
          /\ allocated = Range(0, n - 1)
          /\ streak = n
    /\ res = NoCall
    /\ plan = PlanIdle
    /\ ker = KerIdle
    /\ maps = <<>>
    /\ calls = 0

\* A thread that has panicked makes no further call.
NoneAborted == res.err # "panic" /\ ref.res.err # "panic"

\* alloc() is called on the facade and on the variant.
VariantAlloc ==
    /\ NoneAborted
    /\ AllocEnabled
    /\ LET out == MemoryMapImpl_alloc(FacadeSelf, region, mem)
           var == VariantAllocOf(ref.impl, region, ref.mem)
       IN /\ mem' = out.mem
          /\ res' = Call("alloc", -1,
                         out.res.ok /\ Live(allocated, out.res.val), out.res)
          /\ allocated' = IF out.res.ok
                          THEN AddLive(allocated, out.res.val)
                          ELSE allocated
          /\ ref' = [ref EXCEPT !.mem = var.mem, !.res = var.res]
    /\ streak' = IF streak < 0 THEN -1
                 ELSE Min(streak + 1, max_index(map_type) + 2)
    /\ plan' = PlanAfterAlloc
    /\ UNCHANGED <<mode, map_type, slice_len, ker, region, maps, calls>>

\* dealloc(index) is called on the facade and on the variant, with an index
\* both signatures admit.
VariantDealloc ==
    /\ NoneAborted
    /\ \E index \in {i \in DeallocChoices : i >= 0} :
          LET out == MemoryMapImpl_dealloc(FacadeSelf, region, mem, index)
              var == VariantDeallocOf(ref.impl, region, ref.mem, index)
          IN /\ mem' = out.mem
             /\ res' = Call("dealloc", index, Live(allocated, index), out.res)
             /\ allocated' = IF out.res.ok
                             THEN DelLive(allocated, index)
                             ELSE allocated
             /\ ref' = [ref EXCEPT !.mem = var.mem, !.res = var.res]
             /\ plan' = PlanAfterDealloc(index)
    /\ streak' = -1
    /\ UNCHANGED <<mode, map_type, slice_len, ker, region, maps, calls>>

NextVariant == VariantAlloc \/ VariantDealloc

SpecVariant == InitVariant /\ [][NextVariant]_vars

\* ------------------------------------------------------------------ clones

(***************************************************************************)
(* Two handles of SmallMemoryMap, one the clone of the other, share the    *)
(* cell of one buffer and the offset 0.  Their calls interleave as whole   *)
(* operations.  allocated[h] is the ledger of handle h: the indices        *)
(* returned to it and deallocated through neither handle since.            *)
(***************************************************************************)

\* The number of calls made on the two handles.
MaxCloneCalls == 5

\* The indices passed to dealloc through a handle.
CloneIndices == {0, 1, 63, 64, 4096}

\* The numbers of slots the first handle has allocated before it is cloned.
CloneFills == {0, 63}

\* #[derive(Clone)]: the handle SmallMemoryMap::new returned and its clone.
CloneHandle ==
    [impl |-> "SmallMemoryMap", map_type |-> "Small", offset |-> 0,
     state |-> "live", out |-> Ok(0),
     self |-> [offset |-> 0, map_type |-> "Small"], rebuilt |-> FALSE]

InitClones ==
    /\ mode = "explore"
    /\ plan = PlanIdle
    /\ map_type = "Small"
    /\ slice_len \in {required_words("Small") + k : k \in 0..MaxSlack}
    /\ streak = 0
    /\ ker = KerIdle
    /\ region = [len |-> 8 * slice_len, addr |-> 0, borrowed |-> FALSE]
    /\ maps = <<CloneHandle, CloneHandle>>
    /\ \E n \in CloneFills :
          /\ mem = Filled("Small", n)
          /\ allocated = <<Range(0, n - 1), {}>>
    /\ ref = <<>>
    /\ calls = 0
    /\ res = ArenaCall(0, "none", -1, Ok(-1))

\* Mutant: the guard outlives the call.
GuardAfterCall_kept(held) == TRUE

\* let mut memory = self.memory.borrow_mut(): the guard is a local of the
\* call and is dropped when the call returns; a call that panicked at
\* borrow_mut() took no guard, and the cell stays as the other holder has it.
GuardAfterCall(held) == held

\* alloc() is called through handle h.
CloneAlloc(h) ==
    /\ calls < MaxCloneCalls
    /\ LET out == SmallMemoryMap_alloc(maps[h].self, region, mem)
       IN /\ mem' = out.mem
          /\ res' = ArenaCall(h, "alloc", -1, out.res)
          /\ allocated' = IF out.res.ok
                          THEN [allocated EXCEPT
                                   ![h] = AddLive(@, out.res.val)]
                          ELSE allocated
    /\ region' = [region EXCEPT !.borrowed = GuardAfterCall(region.borrowed)]
    /\ calls' = calls + 1
    /\ UNCHANGED <<mode, map_type, slice_len, streak, plan, ker, maps, ref>>

\* dealloc(index) is called through handle h; a slot freed through one
\* handle is free for both.
CloneDealloc(h) ==
    /\ calls < MaxCloneCalls
    /\ \E index \in CloneIndices :
          LET out == SmallMemoryMap_dealloc(maps[h].self, region, mem, index)
          IN /\ mem' = out.mem
             /\ res' = ArenaCall(h, "dealloc", index, out.res)
             /\ allocated' = IF out.res.ok
                             THEN [g \in DOMAIN allocated |->
                                      DelLive(allocated[g], index)]
                             ELSE allocated
    /\ region' = [region EXCEPT !.borrowed = GuardAfterCall(region.borrowed)]
    /\ calls' = calls + 1
    /\ UNCHANGED <<mode, map_type, slice_len, streak, plan, ker, maps, ref>>

HandleAllocation == \E h \in DOMAIN maps : CloneAlloc(h)

HandleDeallocation == \E h \in DOMAIN maps : CloneDealloc(h)

NextClones == HandleAllocation \/ HandleDeallocation

SpecClones == InitClones /\ [][NextClones]_vars

\* ------------------------------------------------------------------ claims

\* The capacity the specification's table gives each geometry: 2 tiers;
\* 3 tiers with a 4-bit top tier; 3 tiers with a 64-bit top tier.
ClaimedCapacity(t) ==
    IF ~has_third_level(t) THEN 4096
    ELSE IF first_level_bits(t) = 4 THEN 16384
    ELSE 262144

\* The ledger in which every slot of the geometry is live.
AllLive(t) == Range(0, ClaimedCapacity(t) - 1)

\* The buffer a run reaches by alloc calls alone is the one in which exactly
\* the indices below the number of successful calls are allocated: the
\* buffers the filling runs start from are buffers the allocator reaches.
FilledIsReached ==
    streak >= 0 => mem = Filled(map_type, Min(streak, max_index(map_type) + 1))

\* C1: alloc never returns an index that the caller still holds (returned
\* by an earlier alloc and not deallocated since).
C1_AllocReturnsNoLiveIndex ==
    (res.op = "alloc" /\ res.ok) => ~res.live

\* C1 witness: an alloc that handed out an index again after it was freed,
\* while other indices were live.
C1_Witness ==
    /\ res.op = "alloc" /\ res.ok /\ res.val = 1
    /\ streak < 0
    /\ LiveCount(allocated) >= 3

\* C2: a successful alloc returns the lowest free index; right after
\* dealloc(i) it returns i when no lower index is free.
C2_AllocReturnsLowestFree ==
    [][/\ (res'.op = "alloc" /\ res'.ok) => res'.val = LowestFree(allocated)
       /\ (/\ res.op = "dealloc" /\ res.ok
           /\ res'.op = "alloc"
           /\ LowestFree(allocated) = res.arg)
             => (res'.ok /\ res'.val = res.arg)]_vars

\* C2 witness: index 63 was freed from a pool holding more than one word of
\* slots and the next alloc returned it.
C2_Witness ==
    /\ res.op = "alloc" /\ res.ok /\ res.val = 63
    /\ streak < 0
    /\ LiveCount(allocated) >= 65

\* C3: after every operation a top-word bit is 1 iff its mid word is all
\* ones, and in the 3-tier geometries a mid-word bit is 1 iff its leaf word
\* is all ones.
C3_ParentBitIffChildFull ==
    LET top_bits == first_level_bits(map_type)
        base == third_level_base(map_type)
        \* the leaf words (numbered 64 * i + j) that are non-zero or whose
        \* mid word is non-zero; for every other leaf word both sides of
        \* the equivalence are false
        leaves ==
            {d - base : d \in {k \in DOMAIN mem :
                                  base <= k /\ k < base + (64 * top_bits)}}
            \cup UNION {{(64 * (d - 1)) + j : j \in 0..63} :
                          d \in {k \in DOMAIN mem : 1 <= k /\ k <= top_bits}}
    IN /\ \A i \in 0..(top_bits - 1) :
             (Bit(Word(mem, 0), i) = 1) <=> (Word(mem, 1 + i) = u64_MAX)
       /\ has_third_level(map_type) =>
             \A q \in leaves :
                (Bit(Word(mem, 1 + (q \div 64)), q % 64) = 1)
                   <=> (Word(mem, base + q) = u64_MAX)

\* C3 witness: a dealloc left a parent bit set, because the child word of
\* that bit is still full.
C3_Witness ==
    /\ res.op = "dealloc" /\ res.ok /\ res.live
    /\ Bit(Word(mem, 1), 0) = 1
    /\ has_third_level(map_type)

\* C4: from the empty buffer and with no dealloc in between, the n-th alloc
\* (from 0) returns n for every n below the capacity, across word
\* boundaries (the 65th sets bit 0 of the second lowest-tier word), and the
\* alloc after the last slot returns NoAvailableSlots.
C4_SequentialAllocs ==
    (res.op = "alloc" /\ streak >= 1) =>
        /\ streak <= ClaimedCapacity(map_type) =>
              (res.ok /\ res.val = streak - 1)
        /\ streak > ClaimedCapacity(map_type) =>
              (~res.ok /\ res.err = "NoAvailableSlots")
        /\ streak = 65 =>
              /\ res.val = 64
              /\ has_third_level(map_type) =>
                    Word(mem, third_level_base(map_type) + 1) = LowOnes(1)
              /\ ~has_third_level(map_type) => Word(mem, 2) = LowOnes(1)

\* C4 witness: the Small pool was filled from the empty buffer by allocs
\* alone and the next alloc failed.
C4_Witness ==
    /\ map_type = "Small" /\ mode = "fill"
    /\ res.op = "alloc" /\ ~res.ok
    /\ streak = ClaimedCapacity(map_type) + 1

\* C5: exactly capacity allocs succeed before the first NoAvailableSlots
\* (4096, 16384, 262144), and dealloc accepts exactly the indices
\* 0..capacity-1.
C5_CapacityPerGeometry ==
    /\ (res.op = "alloc" /\ streak >= 1) =>
          (res.ok <=> streak <= ClaimedCapacity(map_type))
    /\ res.op = "dealloc" =>
          (res.ok <=> (0 <= res.arg /\ res.arg < ClaimedCapacity(map_type)))

\* C5 witness: the 3-tier pool with the 64-bit top tier is full and its
\* last index has just been accepted by dealloc.
C5_Witness ==
    /\ map_type = "Standard" /\ mode = "fill"
    /\ res.op = "dealloc" /\ res.ok /\ res.arg = 262143

\* C6: alloc returns NoAvailableSlots iff every slot of the geometry is
\* allocated, and succeeds whenever one is free.
C6_FullIffNoAvailableSlots ==
    LET r == alloc(mem, slice_len, map_type).res
    IN /\ (r.err = "NoAvailableSlots") <=> (allocated = AllLive(map_type))
       /\ allocated # AllLive(map_type) => r.ok

\* C6 witness: a full pool had one slot freed, handed it out again and then
\* reported NoAvailableSlots.
C6_Witness ==
    /\ map_type = "Small"
    /\ res.op = "alloc" /\ ~res.ok /\ res.err = "NoAvailableSlots"
    /\ streak < 0

\* C7: an alloc that returns an error leaves every word unchanged.
C7_FailedAllocChangesNothing ==
    [][(res'.op = "alloc" /\ ~res'.ok) => mem' = mem]_vars

\* C7 witness: an alloc on the full 3-tier pool returned an error.
C7_Witness ==
    /\ map_type = "Standard"
    /\ res.op = "alloc" /\ ~res.ok
    /\ allocated = AllLive(map_type)

\* C8: after N allocs and the dealloc of each returned index, in any order,
\* every word is zero again and the next alloc returns 0.
C8_RoundTripRestoresEmpty ==
    (res.op = "dealloc" /\ res.ok /\ allocated = {}) =>
        /\ DOMAIN mem = {}
        /\ alloc(mem, slice_len, map_type).res = Ok(0)

\* C8 witness: a round trip of at least 64 allocations ended with the
\* dealloc of index 30.
C8_Witness ==
    /\ mode = "roundtrip"
    /\ res.op = "dealloc" /\ res.ok /\ res.live /\ res.arg = 30
    /\ allocated = {}

\* C9: dealloc of an in-range index that is free returns ok and leaves the
\* buffer unchanged, so a repeated dealloc succeeds and changes nothing.
C9_DeallocOfFreeIndex ==
    [][(/\ res'.op = "dealloc"
        /\ 0 <= res'.arg /\ res'.arg < ClaimedCapacity(map_type)
        /\ ~res'.live)
          => (res'.ok /\ mem' = mem)]_vars

\* C9 witness: index 63 was deallocated twice in a row on a pool that holds
\* other allocations.
C9_Witness ==
    /\ res.op = "dealloc" /\ res.ok /\ ~res.live /\ res.arg = 63
    /\ LiveCount(allocated) >= 64

\* C10: dealloc returns InvalidIndex for every index above the geometry's
\* maximum and for every negative index, and modifies no word.
C10_InvalidIndexRejected ==
    [][(/\ res'.op = "dealloc"
        /\ (res'.arg < 0 \/ res'.arg > ClaimedCapacity(map_type) - 1))
          => (~res'.ok /\ res'.err = "InvalidIndex" /\ mem' = mem)]_vars

\* C10 witness: the index just above the maximum was rejected on a pool
\* that holds allocations.
C10_Witness ==
    /\ res.op = "dealloc" /\ res.err = "InvalidIndex"
    /\ res.arg = ClaimedCapacity(map_type)
    /\ allocated # {}

\* The positions below significant_bits at which the word has a zero bit.
ZeroPositions(pattern, bits) == {p \in 0..(bits - 1) : Bit(pattern, p) = 0}

\* C11: for every 64-bit word and every significant_bits in 0..64 (the
\* values strictly between 33 and 63 included), get_first_zero_bit returns
\* the smallest position below significant_bits whose bit is 0, and returns
\* NoAvailableSlots exactly when there is no such position; it never returns
\* a position at or above significant_bits.
C11_KernelFindsLowestZero ==
    ker.done =>
        LET zeros == ZeroPositions(ker.pattern, ker.bits)
        IN IF zeros = {}
           THEN ker.out = Err("NoAvailableSlots")
           ELSE /\ ker.out.ok
                /\ ker.out.val \in zeros
                /\ ker.out.val < ker.bits
                /\ \A q \in zeros : ker.out.val <= q

\* A call with 40 significant bits whose answer lies in bits 32..39.
C11_Witness ==
    /\ ker.done
    /\ ker.bits = 40
    /\ ker.out.ok
    /\ ker.out.val = 35

\* The number of words the specification's table requires of each geometry.
ClaimedWords(t) ==
    IF ~has_third_level(t) THEN 65
    ELSE IF first_level_bits(t) = 4 THEN 261
    ELSE 4161

\* C12: MemoryMapImpl::new(region, offset, geometry) decides in this order:
\* InvalidOffset if the offset is at or beyond the region's length; else
\* AlignmentError if region start + offset is no multiple of 8; else
\* InsufficientMemory if fewer than 8 * required words (65, 261, 4161) remain
\* from the offset; else an allocator bound to that offset and geometry.
C12_FacadeConstructionOrder ==
    \A k \in DOMAIN maps :
        (maps[k].impl = "MemoryMapImpl" /\ maps[k].state # "none") =>
            LET offset == maps[k].offset
                expected ==
                    IF offset >= region.len THEN Err("InvalidOffset")
                    ELSE IF (region.addr + offset) % 8 # 0
                         THEN Err("AlignmentError")
                    ELSE IF region.len - offset
                                < 8 * ClaimedWords(maps[k].map_type)
                         THEN Err("InsufficientMemory")
                    ELSE Ok(offset)
            IN /\ maps[k].out = expected
               /\ expected.ok => maps[k].state \in {"live", "panicked"}
               /\ expected.ok =>
                     maps[k].self = [offset |-> offset,
                                     map_type |-> maps[k].map_type]
               /\ ~expected.ok => maps[k].state = "failed"

\* A region that is both misaligned and too short from the offset: the
\* facade reports the alignment.
C12_Witness ==
    /\ maps # <<>>
    /\ maps[1].impl = "MemoryMapImpl"
    /\ maps[1].offset < region.len
    /\ region.len - maps[1].offset < RequiredBytes(maps[1].map_type)
    /\ maps[1].out = Err("AlignmentError")

\* C13: the constructors of the variants (MaxMemoryMap::new,
\* SmallMemoryMap::new, StandardMemoryMap::new) return InsufficientMemory
\* whenever fewer than the required bytes remain from the offset, offsets
\* beyond the region's length included, and succeed only when offset +
\* required bytes is at most the region's length.
C13_VariantsReportInsufficientMemory ==
    \A k \in DOMAIN maps :
        (maps[k].impl # "MemoryMapImpl" /\ maps[k].state # "none") =>
            LET required == 8 * ClaimedWords(VariantGeometry(maps[k].impl))
            IN /\ region.len < maps[k].offset + required
                    => maps[k].out = Err("InsufficientMemory")
               /\ maps[k].out.ok => maps[k].offset + required <= region.len

\* C14: neither MemoryMapImpl::new nor MaxMemoryMap::new returns a live
\* allocator when region start + offset is no multiple of 8 (stated for the
\* offsets inside the region, where no subtraction overflows).
C14_NoLiveAllocatorMisaligned ==
    \A k \in DOMAIN maps :
        (maps[k].impl \in {"MemoryMapImpl", "MaxMemoryMap"}
            /\ maps[k].state # "none"
            /\ maps[k].offset < region.len
            /\ (region.addr + maps[k].offset) % 8 # 0)
        => ~maps[k].out.ok

\* C17: once construction has succeeded, every alloc() and dealloc(index)
\* returns (success or an enumerated error) and never aborts, also over a
\* region whose bytes from the offset are no multiple of 8 (stated for the
\* instances of the facade, whose buffer no one else can borrow).
C17_CallsNeverAbort ==
    (res.op \in {"alloc", "dealloc"} /\ maps[res.who].impl = "MemoryMapImpl")
        => res.err # "panic"

\* The words of the layout of instance k in the buffer m, numbered from the
\* offset of the instance.
LayoutOf(m, k) ==
    LET base == (region.addr + maps[k].offset) \div 8
        n == required_words(maps[k].map_type)
    IN [i \in {j - base : j \in {x \in DOMAIN m : x >= base /\ x < base + n}}
          |-> m[i + base]]

\* The Result of the last call.
LastResult == [ok |-> res.ok, val |-> res.val, err |-> res.err]

\* C15: with two allocators bound to disjoint sub-regions of one buffer, an
\* alloc or dealloc on one leaves every word of the other's layout
\* unchanged, and returns what the allocator alone over its own region
\* returns after the same calls, whatever the interleaving.
C15_DisjointAllocatorsIndependent ==
    [][\A k \in DOMAIN maps :
          (maps[k].impl = "MemoryMapImpl" /\ res'.who = k
              /\ calls' = calls + 1) =>
             /\ \A j \in DOMAIN maps \ {k} : LayoutOf(mem', j) = LayoutOf(mem, j)
             /\ [ok |-> res'.ok, val |-> res'.val, err |-> res'.err]
                   = ref'[k].res
             /\ LayoutOf(mem', k) = ref'[k].mem]_vars

\* The first allocator fills the last slot of its layout, next to the
\* layout of the second, after the second has allocated its slot 0.
C15_Witness ==
    /\ DOMAIN maps = {1, 2}
    /\ region.len = RequiredBytes(maps[1].map_type)
                        + RequiredBytes(maps[2].map_type)
    /\ res.who = 1
    /\ res.op = "alloc"
    /\ res.ok
    /\ res.val = max_index(maps[1].map_type)
    /\ ref[2].res = Ok(0)
    /\ ref[2].mem # Filled(maps[2].map_type, 0)

\* C16: dropping an instance and constructing a new one at the same offset
\* and geometry, between any two operations, changes no later result: the
\* calls return what they return on the instance that is never dropped.
C16_RecreationChangesNothing ==
    \A k \in DOMAIN maps :
        (maps[k].impl = "MemoryMapImpl" /\ maps[k].rebuilt) =>
            /\ maps[k].state \in {"live", "panicked"}
            /\ LayoutOf(mem, k) = ref[k].mem
            /\ (res.who = k /\ res.op \in {"alloc", "dealloc"})
                  => LastResult = ref[k].res

\* An instance constructed again after its first alloc returns 1 from the
\* second.
C16_Witness ==
    /\ maps # <<>>
    /\ maps[1].rebuilt
    /\ res.who = 1
    /\ res.op = "alloc"
    /\ res.ok
    /\ res.val = 1

\* C18 as the specification states it: in the 64-wide three-tier pool, from
\* the empty buffer, the allocations that return 0..63 set bits only in
\* mid-word[0], and bit 0 of the top word is 1 exactly once mid-word[0] is
\* all ones, which is after 64 allocations.
C18_AsStated ==
    (mode = "group" /\ streak >= 1) =>
        /\ streak <= 64 => DOMAIN mem \subseteq {1}
        /\ Bit(Word(mem, 0), 0) = 1 <=> Word(mem, 1) = u64_MAX
        /\ Bit(Word(mem, 0), 0) = 1 <=> streak >= 64

\* C18, amended: in the 64-wide three-tier pool, from the empty buffer, the
\* allocations that return 0..63 set bits only in leaf word (0,0), the
\* first word behind the mid words; bit 0 of mid-word[0] becomes 1 with the
\* 64th of them; bit 0 of the top word is 1 exactly once mid-word[0] is all
\* ones, which is after 4096 allocations, not after the first or the 64th.
C18_FirstGroupFillsLeafFirst ==
    (mode = "group" /\ streak >= 1) =>
        /\ streak <= 63 =>
              /\ DOMAIN mem = {65}
              /\ mem[65] = LowOnes(streak)
        /\ Bit(Word(mem, 1), 0) = 1 <=> streak >= 64
        /\ Bit(Word(mem, 0), 0) = 1 <=> Word(mem, 1) = u64_MAX
        /\ Bit(Word(mem, 0), 0) = 1 <=> streak >= GroupSlots

\* The 4096th allocation has set bit 0 of the top word.
C18_Witness ==
    /\ mode = "group"
    /\ streak = GroupSlots
    /\ res.op = "alloc"
    /\ res.val = GroupSlots - 1
    /\ Bit(Word(mem, 0), 0) = 1

\* The k-th smallest element of the set S of integers.
Pick(S, k) == CHOOSE x \in S : Cardinality({y \in S : y < x}) = k - 1

\* C19: from the state in which exactly 0..n-1 are allocated, after any
\* subset S of them has been deallocated in any order, the next |S| allocs
\* return the elements of S in ascending order, each once, and the alloc
\* after them returns n.
C19_FreedSlotsReusedAscending ==
    (mode = "reuse" /\ plan.stage = "refill") =>
        /\ res.op = "alloc"
        /\ res.ok
        /\ res.val = IF plan.k <= Cardinality(plan.freed)
                     THEN Pick(plan.freed, plan.k)
                     ELSE plan.n

\* Slots on both sides of the first word boundary were freed, and the alloc
\* after their reuse returns n.
C19_Witness ==
    /\ mode = "reuse"
    /\ plan.stage = "refill"
    /\ plan.n = ReuseLen
    /\ {1, 3, 64} \subseteq plan.freed
    /\ plan.k = Cardinality(plan.freed) + 1
    /\ res.val = ReuseLen

\* C20: an alloc or dealloc of a SmallMemoryMap that is called while the
\* shared buffer is mutably borrowed elsewhere returns an error to its
\* caller: it does not succeed and it does not abort (stated for the
\* instances whose region is aligned, a whole number of words and large
\* enough, so that the call returns when the buffer is not borrowed).
C20_ConflictIsReturnedError ==
    (res.op \in {"alloc", "dealloc"}
        /\ maps[res.who].impl = "SmallMemoryMap"
        /\ maps[res.who].offset + RequiredBytes("Small") <= region.len
        /\ ~CastFails(region, maps[res.who].offset)
        /\ res.held)
    => (~res.ok /\ res.err # "panic")

\* ------------------------------------------------------------------ C21..C30

\* C21: on a successfully constructed allocator (the slice holds at least
\* the required words) every word index alloc or dealloc(index), 0 <= index
\* <= the geometry's maximum, computes lies inside the required words: alloc
\* never returns InsufficientMemory or IndexOutOfBounds, dealloc of an
\* in-range index never returns IndexOutOfBounds, and no word at or beyond
\* the required words is ever written.
C21_WordIndicesInsideBuffer ==
    /\ res.op = "alloc" =>
          res.err \notin {"InsufficientMemory", "IndexOutOfBounds"}
    /\ (res.op = "dealloc" /\ 0 <= res.arg /\ res.arg <= max_index(map_type))
          => res.err # "IndexOutOfBounds"
    /\ \A i \in DOMAIN mem : i < required_words(map_type) /\ i < slice_len

\* C21 witness: in a three-tier pool whose slice is exactly the required
\* words, alloc handed out the last slot and so wrote the last word.
C21_Witness ==
    /\ has_third_level(map_type)
    /\ slice_len = required_words(map_type)
    /\ res.op = "alloc" /\ res.ok /\ res.val = max_index(map_type)
    /\ (required_words(map_type) - 1) \in DOMAIN mem

\* The buffer m with the bits at the positions <<word, bit>> of B set to v.
RECURSIVE WithBits(_, _, _)
WithBits(m, B, v) ==
    IF B = {} THEN m
    ELSE LET p == CHOOSE x \in B : TRUE
             w == Word(m, p[1])
             w1 == IF Bit(w, p[2]) = v THEN w
                   ELSE [w EXCEPT ![(p[2] \div 16) + 1] =
                            IF v = 1 THEN @ + Pow2(p[2] % 16)
                            ELSE @ - Pow2(p[2] % 16)]
         IN WithBits(Store(m, p[1], w1), B \ {p}, v)

\* The width of the top tier the specification's table gives each geometry.
ClaimedTopWidth(t) == IF ClaimedCapacity(t) = 16384 THEN 4 ELSE 64

\* The fields the specification packs into an index: (top << 6) | mid with
\* two tiers, (top << 12) | (mid << 6) | leaf with three.
Fields(t, v) ==
    IF has_third_level(t)
    THEN [top |-> v \div 4096, mid |-> (v % 4096) \div 64, leaf |-> v % 64]
    ELSE [top |-> v \div 64, mid |-> v % 64, leaf |-> 0]

\* The positions the fields of an index name in the specification's layout
\* (word 0, the mid words 1..top-width, then one leaf word per (top, mid)):
\* the slot bit in the lowest-tier word, and the bits of that word's parents.
FieldBits(t, v) ==
    LET f == Fields(t, v)
    IN IF has_third_level(t)
       THEN [slot |-> <<1 + ClaimedTopWidth(t) + (64 * f.top) + f.mid,
                        f.leaf>>,
             parents |-> {<<1 + f.top, f.mid>>, <<0, f.top>>}]
       ELSE [slot |-> <<1 + f.top, f.mid>>, parents |-> {<<0, f.top>>}]

\* C22: every index alloc returns is (top << 6) | mid (two tiers) or
\* (top << 12) | (mid << 6) | leaf (three tiers) with top below the top
\* width and mid, leaf below 64, so it lies in 0..capacity - 1; the bits
\* alloc set are the slot bit and, of the parent bits, some that these
\* fields name, and dealloc of the index succeeds and clears exactly the
\* slot bit and parent bits the fields name.
C22_IndexEncodesWhatAllocSet ==
    [][(res'.op = "alloc" /\ res'.ok) =>
          LET v == res'.val
              f == Fields(map_type, v)
              at == FieldBits(map_type, v)
              back == dealloc(mem', slice_len, map_type, v)
          IN /\ 0 <= v /\ v <= ClaimedCapacity(map_type) - 1
             /\ f.top < ClaimedTopWidth(map_type) /\ f.mid < 64 /\ f.leaf < 64
             /\ Bit(Word(mem, at.slot[1]), at.slot[2]) = 0
             /\ \E up \in SUBSET at.parents :
                   mem' = WithBits(mem, {at.slot} \cup up, 1)
             /\ back.res.ok
             /\ back.mem = WithBits(mem', {at.slot} \cup at.parents, 0)]_vars

\* C22 witness: alloc returned an index of a three-tier pool whose top, mid
\* and leaf fields are all non-zero and whose slot was the last of its
\* group, so that bits of all three tiers were set.
C22_Witness ==
    /\ has_third_level(map_type)
    /\ res.op = "alloc" /\ res.ok
    /\ res.val > 4096 /\ res.val % 4096 = 4095
    /\ Bit(Word(mem, 0), res.val \div 4096) = 1

\* The slot bit and the parent bits of an index, as FieldBits names them.
NamedBits(t, v) == {FieldBits(t, v).slot} \cup FieldBits(t, v).parents

\* C23: a successful dealloc(index), of the facade or of a variant, leaves
\* the slot bit of the index, the mid-word bit of its leaf word (three
\* tiers) and the top-word bit of its group 0 whatever they were before,
\* and changes no other bit of the buffer.
C23_DeallocClearsSlotAndParents ==
    [][res'.op = "dealloc" =>
          /\ res'.ok =>
                mem' = WithBits(mem, NamedBits(map_type, res'.arg), 0)
          /\ ref'.res.ok =>
                ref'.mem = WithBits(ref.mem, NamedBits(map_type, res'.arg), 0)
      ]_vars

\* C23 witness: the first dealloc on a full three-tier pool succeeded on the
\* facade and on the variant; the slot bit and both parent bits were 1
\* before it.
C23_Witness ==
    /\ has_third_level(map_type)
    /\ mode = "fill"
    /\ res.op = "dealloc" /\ res.ok /\ res.live
    /\ ref.res.ok
    /\ LiveCount(allocated) = ClaimedCapacity(map_type) - 1
    /\ \A p \in NamedBits(map_type, res.arg) : Bit(Word(mem, p[1]), p[2]) = 0

\* The frame of a successful alloc that returned v on the buffer m and left
\* m2: the slot bit of v went from 0 to 1; the parent bit of the
\* lowest-tier word changed only if that word is all ones in m2, and with
\* three tiers the top-word bit changed only if the mid word is all ones in
\* m2; no other bit differs.
AllocFrame(t, m, m2, v) ==
    LET at == FieldBits(t, v)
        f == Fields(t, v)
        low == at.slot[1]
        up == {p \in at.parents :
                  Bit(Word(m, p[1]), p[2]) # Bit(Word(m2, p[1]), p[2])}
    IN /\ Bit(Word(m, low), at.slot[2]) = 0
       /\ m2 = WithBits(m, {at.slot} \cup up, 1)
       /\ up # {} => Word(m2, low) = u64_MAX
       /\ (has_third_level(t) /\ <<0, f.top>> \in up) =>
             Word(m2, 1 + f.top) = u64_MAX

\* C24: a successful alloc(), of the facade or of a variant, changes exactly
\* one lowest-tier bit, that of the returned index, from 0 to 1; it sets
\* the parent bit only if the lowest-tier word became all ones, and the
\* top-word bit only if the mid word in turn became all ones; every other
\* bit is unchanged.
C24_AllocSetsSlotAndFullParents ==
    [][res'.op = "alloc" =>
          /\ res'.ok => AllocFrame(map_type, mem, mem', res'.val)
          /\ ref'.res.ok =>
                AllocFrame(map_type, ref.mem, ref'.mem, ref'.res.val)
      ]_vars

\* C24 witness: an alloc took the last slot of a pool; on the facade and on
\* the variant it filled the lowest-tier word and every parent word, so
\* that the top word is full.
C24_Witness ==
    /\ res.op = "alloc" /\ res.ok /\ ref.res.ok
    /\ res.val = ClaimedCapacity(map_type) - 1
    /\ Word(mem, 0) = LowOnes(ClaimedTopWidth(map_type))
    /\ Word(ref.mem, 0) = LowOnes(ClaimedTopWidth(map_type))

\* C25: a constructor, whether it succeeds or fails, leaves every byte of
\* the region as it was; an allocator constructed over a buffer that holds
\* allocations continues from them: over the layout in which all slots but
\* the last are allocated, its alloc returns the last slot and leaves the
\* full layout.
C25_ConstructionKeepsBuffer ==
    [][/\ res'.op = "new" => mem' = mem
       /\ \A k \in DOMAIN maps :
             LET t == maps[k].map_type
             IN (/\ res'.who = k /\ res'.op = "alloc" /\ calls' = calls + 1
                 /\ res'.err # "panic"
                 /\ LayoutOf(mem, k) = Filled(t, max_index(t)))
                => /\ res'.ok
                   /\ res'.val = max_index(t)
                   /\ LayoutOf(mem', k) = Filled(t, max_index(t) + 1)
      ]_vars

\* C25 witness: the first call on an allocator constructed over a region
\* that held all slots but the last was an alloc, and it returned the last
\* slot.
C25_Witness ==
    /\ res.op = "alloc" /\ res.ok /\ calls = 1
    /\ res.val = max_index(maps[res.who].map_type)
    /\ maps[res.who].state = "live"

\* C26: in every state reached from the zeroed buffer, when alloc succeeds
\* with i, a dealloc(i) that follows it at once succeeds and restores every
\* word to its value before the alloc, also where the alloc filled a word
\* and set parent bits.
C26_DeallocUndoesAlloc ==
    [][(res'.op = "alloc" /\ res'.ok) =>
          LET back == dealloc(mem', slice_len, map_type, res'.val)
          IN back.res.ok /\ back.mem = mem]_vars

\* C26 witness: an alloc filled a two-tier word that holds the last slot of
\* its group and set the top bit of the group; the dealloc of the returned
\* index changes the buffer.
C26_Witness ==
    /\ map_type = "Small"
    /\ res.op = "alloc" /\ res.ok
    /\ res.val % 64 = 63
    /\ Bit(Word(mem, 0), res.val \div 64) = 1
    /\ dealloc(mem, slice_len, map_type, res.val).mem # mem

\* The scans alloc makes below the top tier on the buffer m, given the
\* position first the top-tier scan returned: both find a free bit.
LowerScansFind(t, m, first) ==
    LET second == get_first_zero_bit(Word(m, 1 + first), 64)
    IN /\ second.ok
       /\ has_third_level(t) =>
             get_first_zero_bit(
                 Word(m, third_level_base(t) + (first * 64) + second.val),
                 64).ok

\* C27: in every reachable state, whenever the top-tier scan of alloc finds
\* a free bit, the mid-tier scan and (three tiers) the leaf-tier scan find
\* one too; an alloc that returned NoAvailableSlots left a top word in
\* which the top-tier scan finds nothing.
C27_OnlyTopScanReportsFull ==
    LET first == get_first_zero_bit(Word(mem, 0), first_level_bits(map_type))
    IN /\ first.ok => LowerScansFind(map_type, mem, first.val)
       /\ (res.op = "alloc" /\ res.err = "NoAvailableSlots") => ~first.ok

\* C27 witness: in a three-tier pool with a full group and a free one, an
\* alloc went past the full group and succeeded.
C27_Witness ==
    /\ has_third_level(map_type)
    /\ res.op = "alloc" /\ res.ok
    /\ Bit(Word(mem, 0), 0) = 1
    /\ get_first_zero_bit(Word(mem, 0), first_level_bits(map_type)).ok
    /\ res.val >= 4096

\* C28: for each geometry, the facade with the matching tag and the
\* dedicated variant (Small and SmallMemoryMap, the 64-wide three-tier
\* geometry and MaxMemoryMap, the 4-wide one and StandardMemoryMap), started
\* on equal buffers and given the same alloc and dealloc(index >= 0) calls,
\* return equal results at every step and keep equal buffers.
C28_VariantAgreesWithFacade ==
    /\ ref.res = LastResult
    /\ ref.mem = mem

\* The agreement of C28 on the regions that are a whole number of words.
VariantAgreesOnWholeWords ==
    region.len % 8 = 0 => (ref.res = LastResult /\ ref.mem = mem)

\* Bits 4..63 of the top word of the buffer m are 0, and no word at or
\* beyond 261 (1 top + 4 mid + 256 leaf) is non-zero.
TopWidth4Tidy(m) ==
    /\ \A j \in 4..63 : Bit(Word(m, 0), j) = 0
    /\ \A i \in DOMAIN m : i < 1 + 4 + 256

\* The low 4 bits of the top word of the buffer m are all 1.
TopWidth4Full(m) == \A j \in 0..3 : Bit(Word(m, 0), j) = 1

\* C29: in the top-width-4 geometry, of the facade and of
\* StandardMemoryMap, in every state reached from the zeroed buffer, bits
\* 4..63 of the top word are 0 and no word beyond the 261-word layout is
\* written; alloc reports the pool full exactly when the low 4 bits of the
\* top word are 1 at the call.
C29_TopWidth4UsesFourBits ==
    [][map_type = "Trade" =>
          /\ TopWidth4Tidy(mem') /\ TopWidth4Tidy(ref'.mem)
          /\ res'.op = "alloc" =>
                /\ res'.err = "NoAvailableSlots" <=> TopWidth4Full(mem)
                /\ ref'.res.err = "NoAvailableSlots" <=> TopWidth4Full(ref.mem)
      ]_vars

\* C29 witness: the facade and StandardMemoryMap reported the pool full
\* over a slice that has a word beyond the layout; the top word holds
\* exactly its low 4 bits.
C29_Witness ==
    /\ map_type = "Trade"
    /\ slice_len > 261
    /\ res.op = "alloc" /\ res.err = "NoAvailableSlots"
    /\ ref.res.err = "NoAvailableSlots"
    /\ Word(mem, 0) = LowOnes(4) /\ Word(ref.mem, 0) = LowOnes(4)

\* C30: two SmallMemoryMap handles, clones over one buffer and offset, with
\* their alloc and dealloc calls interleaved as whole operations: no call
\* finds the buffer borrowed (none panics at borrow_mut), the borrow of a
\* call ends with the call, and no alloc returns an index that is still
\* allocated through either handle.
C30_ClonesShareWithoutConflict ==
    [][res'.op \in {"alloc", "dealloc"} =>
          /\ ~res'.held
          /\ res'.err # "panic"
          /\ ~region'.borrowed
          /\ res'.ok /\ res'.op = "alloc" =>
                \A h \in DOMAIN allocated : ~Live(allocated[h], res'.val)
      ]_vars

\* C30 witness: after at least four interleaved calls the second handle was
\* given a slot by alloc; it holds two slots or more, the first handle holds
\* slots as well, and the bit of every slot held is set in the shared buffer.
C30_Witness ==
    /\ res.op = "alloc" /\ res.ok /\ res.who = 2
    /\ calls >= 4
    /\ allocated[1] # {} /\ allocated[2] # {}
    /\ LiveCount(allocated[2]) >= 2
    /\ \A h \in DOMAIN allocated :
          \A r \in allocated[h] :
             \A i \in r[1]..r[2] : Bit(Word(mem, 1 + (i \div 64)), i % 64) = 1

====
